---- MODULE Spec2Model ----
(***************************************************************************)
(* A model of the de4l_geodata kernel: Point / PointT values, the Route    *)
(* list type (src/de4l_geodata/geodata) and the two mobility model         *)
(* builders (src/de4l_geodata/mobility_model, the sqlite-backed class, and *)
(* src/de4l_geodata/mobilitymodels, the data-frame based function).        *)
(*                                                                         *)
(* Spec    : one Route object: construction, append, set-at-index, delete. *)
(* SpecCall: one call of a Route or Point operation on given arguments.    *)
(* SpecPoint: Point objects with their list items, attributes and identity.*)
(* SpecDB  : MobilityModel (sqlite tables) ingesting routes pair by pair.  *)
(* SpecDF  : calculate_mobility_model (data frames) ingesting routes.      *)
(* SpecBatch: two MobilityModels taking two data frames in either order.   *)
(***************************************************************************)
EXTENDS Integers, Sequences, FiniteSets, TLC

(***************************************************************************)
(* Bounds of the model.                                                    *)
(***************************************************************************)
\* longest Route the operations may build
MaxLen == 3
\* longest list handed to the Route constructor
MaxInitLen == 2
\* timestamps are 1..MaxTs (pandas.Timestamp values, ordered)
MaxTs == 2

VARIABLES
    constructed,    \* Route: "no" before Route(...), "yes" after, "failed" when __init__ raised
    route,          \* Route: the list content of the Route object
    last,           \* Route: the last operation: its name, whether it raised, the warnings it emitted
    db,             \* MobilityModel: the tables transition, transition_probability, location
    run,            \* MobilityModel: the position of calculate_mobility_model in its data frame
    df,             \* calculate_mobility_model (data frames): transition_df, location_df and position
    call,           \* one call of a Route or Point operation: its arguments and its outcome
    pt,             \* Point objects: the heap of the objects alive and the last operation on them
    batch           \* two MobilityModels and two data frames: the tables after each call

vars == <<constructed, route, last, db, run, df, call, pt, batch>>

routeVars == <<constructed, route, last>>

(***************************************************************************)
(* Numbers.  A coordinate is k * (pi/180)^e, kept as <<k, e>>, so that     *)
(* math.degrees (times 180/pi) and math.radians (times pi/180) are exact   *)
(* and are not the identity.  Zero has one representation.                 *)
(***************************************************************************)
Num(k) == <<k, 0>>

Norm(n) == IF n[1] = 0 THEN <<0, 0>> ELSE n

math_degrees(n) == Norm(<<n[1], n[2] - 1>>)

math_radians(n) == Norm(<<n[1], n[2] + 1>>)

(***************************************************************************)
(* Point and PointT.  cls is the Python type of the object: "raw" is a     *)
(* plain two-element list, "Point" and "PointT" the classes.  ts = NoTs    *)
(* for an object without a timestamp attribute.                            *)
(***************************************************************************)
NoTs == 0

Timestamps == 1..MaxTs

Raw(x, y) ==
    [cls |-> "raw", x |-> Num(x), y |-> Num(y), grs |-> "none", unit |-> "none", ts |-> NoTs]

\* Point.__init__(coordinates, geo_reference_system, coordinates_unit)
Point(c, grs, unit) ==
    [cls |-> "Point", x |-> c.x, y |-> c.y, grs |-> grs, unit |-> unit, ts |-> NoTs]

\* PointT.__init__(coordinates, timestamp, geo_reference_system, coordinates_unit)
PointT(c, ts, grs, unit) ==
    [cls |-> "PointT", x |-> c.x, y |-> c.y, grs |-> grs, unit |-> unit, ts |-> ts]

\* isinstance(value, Point): PointT is a subclass of Point
isPoint(v) == v.cls \in {"Point", "PointT"}

\* isinstance(value, PointT)
isPointT(v) == v.cls = "PointT"

\* Point.deep_copy / PointT.deep_copy (dispatched on the class of self)
deep_copy(p) ==
    IF p.cls = "PointT" THEN PointT(p, p.ts, p.grs, p.unit)
    ELSE Point(p, p.grs, p.unit)

\* Point.to_degrees_: raises for a point that is not latlon
to_degrees_(p) ==
    IF p.grs # "latlon" THEN [err |-> TRUE, p |-> p, warn |-> FALSE]
    ELSE IF p.unit = "degrees" THEN [err |-> FALSE, p |-> p, warn |-> TRUE]
    ELSE [err |-> FALSE, warn |-> FALSE,
          p |-> [p EXCEPT !.x = math_degrees(p.x), !.y = math_degrees(p.y), !.unit = "degrees"]]

\* Point.to_radians_: raises for a point that is not latlon
to_radians_(p) ==
    IF p.grs # "latlon" THEN [err |-> TRUE, p |-> p, warn |-> FALSE]
    ELSE IF p.unit = "radians" THEN [err |-> FALSE, p |-> p, warn |-> TRUE]
    ELSE [err |-> FALSE, warn |-> FALSE,
          p |-> [p EXCEPT !.x = math_radians(p.x), !.y = math_radians(p.y), !.unit = "radians"]]

\* Point.to_degrees: the conversion applied to a deep copy
to_degrees(p) == to_degrees_(deep_copy(p))

\* a to_radians that sets the unit of the copy and leaves the coordinates as they are
to_radians_KeepingCoordinates(p) ==
    IF p.grs # "latlon" THEN [err |-> TRUE, p |-> p, warn |-> FALSE]
    ELSE [err |-> FALSE, warn |-> p.unit = "radians", p |-> [deep_copy(p) EXCEPT !.unit = "radians"]]

\* Point.to_radians: the conversion applied to a deep copy
to_radians(p) == to_radians_(deep_copy(p))

(***************************************************************************)
(* Route: a Python list of points.                                         *)
(***************************************************************************)
\* an optional argument: None is <<>>, a given value x is <<x>>
None == <<>>

Some(x) == <<x>>

\* Route.has_timestamps: non-empty and every item is a PointT
has_timestamps(r) ==
    Len(r) > 0 /\ \A i \in 1..Len(r) : isPointT(r[i])

\* Route.get_coordinates_unit: the unit of the items; raises when they differ
get_coordinates_unit(r) ==
    IF Len(r) = 0 THEN [err |-> FALSE, unit |-> "radians"]
    ELSE IF \E i \in 1..Len(r) : r[i].unit # r[1].unit THEN [err |-> TRUE, unit |-> "none"]
    ELSE [err |-> FALSE, unit |-> r[1].unit]

\* an insertion that puts an item before the items of equal key
RECURSIVE InsertBeforeEqual(_, _)
InsertBeforeEqual(sorted, p) ==
    IF sorted = <<>> THEN <<p>>
    ELSE IF Head(sorted).ts < p.ts THEN <<Head(sorted)>> \o InsertBeforeEqual(Tail(sorted), p)
    ELSE <<p>> \o sorted

\* list.sort(key=timestamp) is stable: an item goes behind the items whose key is not larger
RECURSIVE InsertByTime(_, _)
InsertByTime(sorted, p) ==
    IF sorted = <<>> THEN <<p>>
    ELSE IF Head(sorted).ts <= p.ts THEN <<Head(sorted)>> \o InsertByTime(Tail(sorted), p)
    ELSE <<p>> \o sorted

RECURSIVE StableSort(_)
StableSort(r) ==
    IF r = <<>> THEN <<>>
    ELSE InsertByTime(StableSort(SubSeq(r, 1, Len(r) - 1)), r[Len(r)])

\* an exception: the Route is left as it was; why names the raise statement
Failed(r, why) == [err |-> TRUE, route |-> r, warn |-> {}, why |-> why]

Ok(r, warn) == [err |-> FALSE, route |-> r, warn |-> warn, why |-> "none"]

\* Route.sort_by_time: raises when the first item is no PointT, and (AttributeError of the
\* key function, the list is left as it was) when a later item has no timestamp
sort_by_time(r) ==
    IF Len(r) > 0 /\ ~isPointT(r[1]) THEN Failed(r, "sort: first item is no PointT")
    ELSE IF \E i \in 1..Len(r) : ~isPointT(r[i]) THEN Failed(r, "sort: item without timestamp")
    ELSE Ok(StableSort(r), {})

\* Route.__setitem__(key, value); key is a Python index (negative counts from the end)
Route_setitem(r, key, value) ==
    LET v   == IF ~isPoint(value) THEN Point(value, "latlon", "radians") ELSE value
        pos == IF key < 0 THEN Len(r) + key + 1 ELSE key + 1
    IN  IF pos < 1 \/ pos > Len(r) THEN Failed(r, "index out of range")
        ELSE LET r2 == [r EXCEPT ![pos] = v]
             IN  IF has_timestamps(r2) THEN Ok(sort_by_time(r2).route, {}) ELSE Ok(r2, {})

\* the loop of Route.__init__ over enumerate(route): self starts as a copy of the argument
RECURSIVE InitLoop(_, _, _, _, _)
InitLoop(self, rt, timestamps, unit, i) ==
    IF i > Len(rt) THEN self
    ELSE LET point == rt[i]
             next  == IF timestamps # None
                      THEN Route_setitem(self, i - 1,
                                         PointT(point, timestamps[1][i], "latlon", unit)).route
                      ELSE IF ~isPoint(point)
                      THEN Route_setitem(self, i - 1, Point(point, "latlon", unit)).route
                      ELSE self
         IN  InitLoop(next, rt, timestamps, unit, i + 1)

\* Route.__init__(route, timestamps, coordinates_unit)
Route_init(rt, timestamps, unit) ==
    IF rt = None THEN Ok(<<>>, {})
    ELSE IF timestamps # None /\ Len(timestamps[1]) # Len(rt[1])
    THEN Failed(<<>>, "timestamps and route differ in length")
    ELSE LET self == InitLoop(rt[1], rt[1], timestamps, unit, 1)
         IN  IF has_timestamps(self) THEN Ok(sort_by_time(self).route, {}) ELSE Ok(self, {})

\* Route.append(value) behind its timestamp check: the coercion of a raw value, the two
\* warnings, the unit conversion, list.append and the re-sort of a timed Route
append_value(r, value) ==
    LET route_has_timestamps == has_timestamps(r)
        cu == get_coordinates_unit(r)
    IN  IF cu.err THEN Failed(r, "route with differing units")
        ELSE
          LET v1 == IF ~isPoint(value) THEN Point(value, "latlon", cu.unit) ELSE value
              w1 == IF ~route_has_timestamps /\ isPointT(v1) THEN {"timestamp"} ELSE {}
              differs == v1.unit # cu.unit
              conv    == IF cu.unit = "degrees" THEN to_degrees(v1) ELSE to_radians(v1)
              w2      == IF differs THEN w1 \cup {"unit"} ELSE w1
          IN  IF differs /\ conv.err THEN Failed(r, "point is not latlon")
              ELSE
                LET v2 == IF differs THEN conv.p ELSE v1
                    r2 == Append(r, v2)
                IN  Ok(IF route_has_timestamps THEN sort_by_time(r2).route ELSE r2, w2)

\* Route.append without the check of line 134
Route_append_NoTimestampCheck(r, value) == append_value(r, value)

\* Route.append(value)
Route_append(r, value) ==
    IF has_timestamps(r) /\ ~isPointT(value) THEN Failed(r, "point without timestamp")
    ELSE append_value(r, value)

\* Route.delete_point_at_(idx): del self[idx] accepts a negative index down to -len
delete_point_at_(r, idx) ==
    IF Len(r) > 0 /\ Len(r) > idx
    THEN LET pos == IF idx < 0 THEN Len(r) + idx + 1 ELSE idx + 1
         IN  IF pos < 1 THEN Failed(r, "index out of range")
             ELSE Ok(SubSeq(r, 1, pos - 1) \o SubSeq(r, pos + 1, Len(r)), {})
    ELSE Failed(r, "idx is not valid")

(***************************************************************************)
(* The values handed to the Route operations.                              *)
(***************************************************************************)
Units == {"radians", "degrees"}

RawValues == {Raw(1, 2)}

PlainValues ==
    {Point(Raw(0, 0), "latlon", "radians"), Point(Raw(1, 2), "latlon", "degrees"),
     Point(Raw(1, 2), "cartesian", "radians")}

TimedValues ==
    {PointT(Raw(0, 0), t, "latlon", "radians") : t \in Timestamps}
      \cup {PointT(Raw(1, 2), 1, "latlon", "radians")}

Values == RawValues \cup PlainValues \cup TimedValues

\* the lists of length 0..n over S
SeqsUpTo(S, n) == UNION {[1..k -> S] : k \in 0..n}

Done(op, res) ==
    [op |-> op, err |-> res.err, warn |-> res.warn, why |-> res.why]

(***************************************************************************)
(* Spec: the life of one Route object.                                     *)
(***************************************************************************)
RouteIdle ==
    /\ constructed = "no"
    /\ route = <<>>
    /\ last = [op |-> "none", err |-> FALSE, warn |-> {}, why |-> "none"]

MobilityIdle ==
    /\ db = <<>>
    /\ run = <<>>
    /\ df = <<>>

\* no operation has been called
NoCall == [op |-> "none"]

CallIdle == call = NoCall

\* no Point object has been made
PointIdle == pt = <<>>

\* no MobilityModel of SpecBatch has been made
BatchIdle == batch = <<>>

Init == RouteIdle /\ MobilityIdle /\ CallIdle /\ PointIdle /\ BatchIdle

\* Route(route, timestamps, coordinates_unit)
Construct ==
    /\ constructed = "no"
    /\ \E rt \in {None} \cup {Some(l) : l \in SeqsUpTo(Values, MaxInitLen)},
          tss \in {None} \cup {Some(l) : l \in SeqsUpTo(Timestamps, MaxInitLen)},
          unit \in Units :
          LET res == Route_init(rt, tss, unit)
          IN  /\ route' = res.route
              /\ constructed' = IF res.err THEN "failed" ELSE "yes"
              /\ last' = Done("init", res)
    /\ UNCHANGED <<db, run, df, call, pt, batch>>

\* route.append(value)
DoAppend ==
    /\ constructed = "yes"
    /\ Len(route) < MaxLen
    /\ \E v \in Values :
          LET res == Route_append(route, v)
          IN  /\ route' = res.route
              /\ last' = Done("append", res)
    /\ UNCHANGED <<constructed, db, run, df, call, pt, batch>>

\* route[key] = value
DoSetItem ==
    /\ constructed = "yes"
    /\ \E key \in 0..Len(route), v \in Values :
          LET res == Route_setitem(route, key, v)
          IN  /\ route' = res.route
              /\ last' = Done("setitem", res)
    /\ UNCHANGED <<constructed, db, run, df, call, pt, batch>>

\* route.delete_point_at_(idx)
DoDelete ==
    /\ constructed = "yes"
    /\ \E idx \in -(Len(route) + 1)..Len(route) :
          LET res == delete_point_at_(route, idx)
          IN  /\ route' = res.route
              /\ last' = Done("delete", res)
    /\ UNCHANGED <<constructed, db, run, df, call, pt, batch>>

Next == Construct \/ DoAppend \/ DoSetItem \/ DoDelete

Spec == Init /\ [][Next]_vars

(***************************************************************************)
(* Route: the claims.                                                      *)
(***************************************************************************)
Sorted(r) == \A i, j \in 1..Len(r) : i < j => r[i].ts <= r[j].ts

Homogeneous(r) ==
    \A i, j \in 1..Len(r) : r[i].unit = r[j].unit /\ r[i].grs = r[j].grs

AllPlain(r) == \A i \in 1..Len(r) : ~isPointT(r[i])

\* C1: a Route whose elements are all TimedPoints is ordered by timestamp (non-decreasing)
\* after any sequence of successful construction, append, set-at-index and delete_point_at_.
C1_TimedRouteIsSorted ==
    (constructed = "yes" /\ has_timestamps(route)) => Sorted(route)

\* C2: all elements of a constructed Route share one coordinates_unit and one
\* geo_reference_system (so a construction from mixed elements cannot have succeeded).
C2_OneUnitOneReferenceSystem ==
    constructed = "yes" => Homogeneous(route)

\* C3: a non-empty Route holds only TimedPoints or no TimedPoint at all.
C3_TimestampsAllOrNone ==
    (constructed = "yes" /\ Len(route) > 0) => (has_timestamps(route) \/ AllPlain(route))

\* C9: in every state with a Route that has timestamps, appending a value without a
\* timestamp (a plain Point or a raw pair) raises and leaves the Route as it is.
C9_AppendUntimedToTimedFails ==
    (constructed = "yes" /\ has_timestamps(route)) =>
        \A v \in RawValues \cup PlainValues :
            /\ Route_append(route, v).err
            /\ Route_append(route, v).route = route


\* C9 witness: an append has just failed for the missing timestamp on a timed Route
C9_Witness ==
    /\ last.op = "append" /\ last.err /\ last.why = "point without timestamp"
    /\ has_timestamps(route) /\ Len(route) >= 2

\* C10: after a TimedPoint was appended (with the timestamp warning) to a non-empty Route of
\* plain Points, the Route has grown by that element and the stored element has no timestamp.
C10_AppendedTimestampDiscarded ==
    (/\ last.op = "append" /\ ~last.err /\ "timestamp" \in last.warn
     /\ Len(route) >= 2 /\ AllPlain(SubSeq(route, 1, Len(route) - 1)))
        => (~isPointT(route[Len(route)]) /\ route[Len(route)].ts = NoTs)

AllLatlon(r) == \A i \in 1..Len(r) : r[i].grs = "latlon"

AllOfUnit(r, unit) == \A i \in 1..Len(r) : r[i].unit = unit

\* cartesian points, plain and timed, with either unit tag
CartesianValues ==
    {Point(Raw(1, 2), "cartesian", u) : u \in Units}
      \cup {PointT(Raw(1, 2), t, "cartesian", u) : t \in Timestamps, u \in Units}

\* C11: in every state with a non-empty Route of latlon elements, appending a cartesian
\* point raises, whatever the unit tag of the point, and leaves the Route as it is.
C11_AppendCartesianToLatlonFails ==
    (constructed = "yes" /\ Len(route) > 0 /\ AllLatlon(route)) =>
        \A v \in CartesianValues :
            /\ Route_append(route, v).err
            /\ Route_append(route, v).route = route

\* latlon points of one unit, plain and timed
LatlonValues(unit) ==
    {Point(Raw(1, 2), "latlon", unit)}
      \cup {PointT(Raw(1, 2), t, "latlon", unit) : t \in Timestamps}

OtherUnit(unit) == IF unit = "radians" THEN "degrees" ELSE "radians"

\* the point v in the given unit: same class, timestamp and reference system
Converted(v, unit) ==
    [v EXCEPT !.unit = unit,
              !.x = IF unit = "radians" THEN math_radians(v.x) ELSE math_degrees(v.x),
              !.y = IF unit = "radians" THEN math_radians(v.y) ELSE math_degrees(v.y)]

RemoveAt(r, k) == SubSeq(r, 1, k - 1) \o SubSeq(r, k + 1, Len(r))

\* appending v (of the other unit) to r (all of one unit) succeeded with the unit warning,
\* and the result is r with the converted v put in (behind r, or by its timestamp)
AppendedConverted(r, unit, v) ==
    LET res == Route_append(r, v)
    IN  /\ ~res.err
        /\ "unit" \in res.warn
        /\ Len(res.route) = Len(r) + 1
        /\ \E k \in 1..Len(res.route) :
              /\ res.route[k] = Converted(v, unit)
              /\ RemoveAt(res.route, k) = IF has_timestamps(r) THEN StableSort(r) ELSE r

C13_AppendToEmptyKeepsUnit ==
    (constructed = "yes" /\ Len(route) = 0) =>
        \A unit \in Units : \A v \in LatlonValues(unit) :
            LET res == Route_append(route, v)
            IN  /\ ~res.err
                /\ res.route = <<v>>
                /\ get_coordinates_unit(res.route) = [err |-> FALSE, unit |-> unit]

(***************************************************************************)
(* Mobility models: numbers and texts.                                     *)
(***************************************************************************)
\* most route points taken into the tables of one MobilityModel (sqlite)
MaxPoints == 4
\* most route points of the data frame handed to one call of calculate_mobility_model
MaxFramePoints == 3

\* assumed speed of get_shortest_route_details
default_avg_speed_kmh == 45

Abs(n) == IF n < 0 THEN -n ELSE n

RECURSIVE GCD(_, _)
GCD(a, b) == IF b = 0 THEN a ELSE GCD(b, a % b)

\* the quotient n / d of two counts or sums (n >= 0, d > 0), in lowest terms
Frac(n, d) == LET g == GCD(n, d) IN <<n \div g, d \div g>>

Min(S) == CHOOSE x \in S : \A y \in S : x <= y

\* str(point): Point is a list, so the text has the two coordinates and nothing else;
\* a text is kept as the list of the coordinate pairs written in it
Point_str(p) == << <<p.x, p.y>> >>

\* str(route), str([point])
Route_str(r) == [i \in 1..Len(r) |-> <<r[i].x, r[i].y>>]

\* parser.points_str_to_list: a list of [float, float]
points_str_to_list(s) ==
    [i \in 1..Len(s) |->
        [cls |-> "raw", x |-> s[i][1], y |-> s[i][2], grs |-> "none", unit |-> "none", ts |-> NoTs]]

\* parser.route_str_to_list: strips the outer brackets, then points_str_to_list
route_str_to_list(s) == points_str_to_list(s)

\* point in route: list.__contains__ with list equality, which compares the coordinates
Route_contains(r, p) == \E i \in 1..Len(r) : r[i].x = p.x /\ r[i].y = p.y

RECURSIVE SumX(_)
SumX(r) == IF r = <<>> THEN 0 ELSE Head(r).x[1] + SumX(Tail(r))

RECURSIVE SumY(_)
SumY(r) == IF r = <<>> THEN 0 ELSE Head(r).y[1] + SumY(Tail(r))

\* the mean sum / n of n coordinates of exponent e: <<k, e>> when it is a whole multiple,
\* else <<p, e, q>> for p/q in lowest terms
Mean(sum, n, e) ==
    LET q == Frac(sum, n)
    IN  IF q[2] = 1 THEN Norm(<<q[1], e>>) ELSE <<q[1], e, q[2]>>

\* Route.get_average_point: None for an empty Route, else the Point of the coordinate-wise
\* means with the unit and reference system of the elements (a Route of one unit)
get_average_point(r) ==
    IF Len(r) = 0 THEN None
    ELSE Some([cls |-> "Point", x |-> Mean(SumX(r), Len(r), r[1].x[2]),
               y |-> Mean(SumY(r), Len(r), r[1].y[2]),
               grs |-> r[1].grs, unit |-> r[1].unit, ts |-> NoTs])

\* hs.haversine on two points in degrees: the great-circle distance in metres, here the
\* grid distance of the coordinates in steps of 25 m
haversine(a, b) == 25 * (Abs(a.x[1] - b.x[1]) + Abs(a.y[1] - b.y[1]))

\* math.sqrt, rounded down
sqrt(n) == CHOOSE k \in 0..n : k * k <= n /\ (k + 1) * (k + 1) > n

\* get_distance(point_a, point_b)
get_distance(a, b) ==
    IF a.grs # b.grs THEN [err |-> TRUE, d |-> 0]
    ELSE IF a.grs = "latlon"
    THEN [err |-> FALSE, d |-> haversine(to_degrees(a).p, to_degrees(b).p)]
    ELSE [err |-> FALSE,
          d |-> sqrt((b.x[1] - a.x[1]) * (b.x[1] - a.x[1]) + (b.y[1] - a.y[1]) * (b.y[1] - a.y[1]))]

(***************************************************************************)
(* Mobility models: what the data frame rows and the two services give.    *)
(***************************************************************************)
\* osm ids answered by nominatim.reverse
Segments == {1, 2}

\* dt.weekday of trip_time_start_utc
Weekdays == {0, 1}

\* the points of the routes of a data frame: latlon, in radians
MPoints == {Point(Raw(1, 2), "latlon", "radians"), Point(Raw(2, 2), "latlon", "radians")}

\* directions[0] of get_directions_for_route (package de4l_detour_detection): distance and
\* duration of the routed connection of two points, a fixed function of the two points that
\* is longer than the straight line
get_directions_for_route(a, b) ==
    LET d == get_distance(a, b).d
    IN  [distance |-> 100 + 6 * d, duration |-> 10 + 2 * (d \div 5)]

\* the summary of client.directions for two points: a detail is <<value>>, or <<>> when the
\* key is absent (both details given, or none)
Summaries(a, b) ==
    {[distance |-> <<get_directions_for_route(a, b).distance>>,
      duration |-> <<get_directions_for_route(a, b).duration>>],
     [distance |-> <<>>, duration |-> <<>>]}

Keys == Segments \X Segments \X Weekdays

\* position of calculate_mobility_model: pc "idle" (not running), "rows" (at the head of the
\* loop over the rows), "pairs" (at the head of the loop over the pairs, index i);
\* outcome of the last call; the locals route, weekday, i (kept while the loop over the pairs
\* runs) and the exception of the last pair; nr_routes; points counts the route points of the
\* rows read into the tables or frames; seen keeps, per key, number, distances and durations of the pairs resolved
IdleRun ==
    [pc |-> "idle", outcome |-> "none", route |-> <<>>, weekday |-> 0, i |-> 0,
     fail |-> "none", nr_routes |-> 0, points |-> 0,
     seen |-> [k \in Keys |-> [n |-> 0, distance |-> 0, duration |-> 0]]]

\* the head of the loop over the pairs is reached when the route has a pair left
AfterPair(r, i) == IF i < Len(r) - 1 THEN "pairs" ELSE "rows"

\* the locals of the loop over the pairs: at index i of route, or (the loop has ended) none
Locals(rn, r, weekday, i) ==
    IF AfterPair(r, i) = "pairs"
    THEN [rn EXCEPT !.pc = "pairs", !.route = r, !.weekday = weekday, !.i = i]
    ELSE [rn EXCEPT !.pc = "rows", !.route = <<>>, !.weekday = 0, !.i = 0]

\* create_transition_df, create_location_df
EmptyFrames == [transition_df |-> <<>>, location_df |-> <<>>]

\* MobilityModel.__init__ on a new file: the tables exist and are empty
EmptyDB == [transition |-> <<>>, transition_probability |-> {}, location |-> <<>>]

\* no Route in use, a new MobilityModel, no call of calculate_mobility_model under way
InitMobility ==
    RouteIdle /\ CallIdle /\ PointIdle /\ BatchIdle /\ db = EmptyDB /\ run = IdleRun /\ df = EmptyFrames

(***************************************************************************)
(* MobilityModel (sqlite).  A table is the list of its rows in insertion   *)
(* order; transition_id is the position of a row.  transition_probability  *)
(* is a set of rows.  The TEXT columns of location hold str(...) values.   *)
(***************************************************************************)
\* find_transition with a WHERE clause that leaves out the weekday
find_transition_AnyWeekday(tbl, osm_id_1, osm_id_2, weekday) ==
    {i \in 1..Len(tbl) : tbl[i].osm_id_1 = osm_id_1 /\ tbl[i].osm_id_2 = osm_id_2}

\* MobilityModel.find_transition: the ids of the rows with the key
MobilityModel_find_transition(tbl, osm_id_1, osm_id_2, weekday) ==
    {i \in 1..Len(tbl) : /\ tbl[i].osm_id_1 = osm_id_1
                         /\ tbl[i].osm_id_2 = osm_id_2
                         /\ tbl[i].weekday = weekday}

\* a create_or_update_transition whose UPDATE writes distance and duration of the new pair
\* in place of the sums
create_or_update_transition_LastPair(tbl, osm_id_1, osm_id_2, weekday, distance, duration) ==
    LET existing_transition == MobilityModel_find_transition(tbl, osm_id_1, osm_id_2, weekday)
    IN  IF existing_transition = {}
        THEN Append(tbl, [osm_id_1 |-> osm_id_1, osm_id_2 |-> osm_id_2, weekday |-> weekday,
                          counter |-> 1, distance_sum |-> distance, duration_sum |-> duration])
        ELSE [i \in 1..Len(tbl) |->
                IF i \in existing_transition
                THEN [tbl[i] EXCEPT !.counter = @ + 1, !.distance_sum = distance,
                                    !.duration_sum = duration]
                ELSE tbl[i]]

\* MobilityModel.create_or_update_transition: INSERT when no row has the key, else UPDATE of
\* the rows with the key from the values of the first row found
create_or_update_transition(tbl, osm_id_1, osm_id_2, weekday, distance, duration) ==
    LET existing_transition == MobilityModel_find_transition(tbl, osm_id_1, osm_id_2, weekday)
    IN  IF existing_transition = {}
        THEN Append(tbl, [osm_id_1 |-> osm_id_1, osm_id_2 |-> osm_id_2, weekday |-> weekday,
                          counter |-> 1, distance_sum |-> distance, duration_sum |-> duration])
        ELSE LET first == tbl[Min(existing_transition)]
             IN  [i \in 1..Len(tbl) |->
                    IF /\ tbl[i].osm_id_1 = osm_id_1
                       /\ tbl[i].osm_id_2 = osm_id_2
                       /\ tbl[i].weekday = weekday
                    THEN [tbl[i] EXCEPT !.counter = first.counter + 1,
                                        !.distance_sum = first.distance_sum + distance,
                                        !.duration_sum = first.duration_sum + duration]
                    ELSE tbl[i]]

\* MobilityModel.find_location: the rows of the segment, their texts parsed into a Route and
\* a Point in degrees
MobilityModel_find_location(tbl, osm_id) ==
    LET Found(row) == row.osm_id = osm_id
        rows == SelectSeq(tbl, Found)
    IN  [i \in 1..Len(rows) |->
            [osm_id |-> rows[i].osm_id,
             locations |-> Route_init(Some(route_str_to_list(rows[i].locations)),
                                      None, "degrees").route,
             center |-> Point(points_str_to_list(rows[i].center)[1], "latlon", "degrees")]]

\* MobilityModel.create_or_update_location
create_or_update_location(tbl, osm_id, point) ==
    LET existing_location == MobilityModel_find_location(tbl, osm_id)
    IN  IF existing_location = <<>>
        THEN Append(tbl, [osm_id |-> osm_id, locations |-> Route_str(<<point>>),
                          center |-> Point_str(point)])
        ELSE LET locations == Route_init(Some(existing_location[1].locations),
                                         None, "degrees").route
             IN  IF Route_contains(locations, point) THEN tbl
                 ELSE LET appended == Route_append(locations, point).route
                          center   == get_average_point(appended)[1]
                      IN  [i \in 1..Len(tbl) |->
                             IF tbl[i].osm_id = osm_id
                             THEN [tbl[i] EXCEPT !.locations = Route_str(appended),
                                                 !.center = Point_str(center)]
                             ELSE tbl[i]]

RECURSIVE SumCounter(_, _)
SumCounter(tbl, ids) ==
    IF ids = {} THEN 0
    ELSE LET i == Min(ids) IN tbl[i].counter + SumCounter(tbl, ids \ {i})

\* SUM(counter) with a GROUP BY that leaves out the weekday
sum_of_counter_AnyWeekday(tbl, osm_id_1, weekday) ==
    SumCounter(tbl, {i \in 1..Len(tbl) : tbl[i].osm_id_1 = osm_id_1})

\* SUM(counter) of the group (osm_id_1, weekday)
sum_of_counter(tbl, osm_id_1, weekday) ==
    SumCounter(tbl, {i \in 1..Len(tbl) : tbl[i].osm_id_1 = osm_id_1 /\ tbl[i].weekday = weekday})

\* the subquery counter_stats: one row per group (osm_id_1, weekday)
counter_stats(tbl) ==
    {[osm_id_1 |-> g[1], weekday |-> g[2], sum_of_counter |-> sum_of_counter(tbl, g[1], g[2])] :
        g \in {<<tbl[i].osm_id_1, tbl[i].weekday>> : i \in 1..Len(tbl)}}

\* MobilityModel.calculate_transition_probabilities: the table is dropped and filled from
\* transition LEFT JOIN counter_stats (a row without a partner gets NULL, written <<>>)
calculate_transition_probabilities(tbl) ==
    LET stats == counter_stats(tbl)
        Partners(i) == {s \in stats : /\ s.osm_id_1 = tbl[i].osm_id_1
                                      /\ s.weekday = tbl[i].weekday}
    IN  UNION {IF Partners(i) = {}
               THEN {[transition_id |-> i, transition_probability |-> <<>>]}
               ELSE {[transition_id |-> i,
                      transition_probability |-> Frac(tbl[i].counter, s.sum_of_counter)] :
                        s \in Partners(i)} : i \in 1..Len(tbl)}

\* a segments_to_check that names the next segment in every pass
segments_to_check_EveryPair(i, route_len, current_osm_id, current_point, next_osm_id, next_point) ==
    << <<current_osm_id, current_point>>, <<next_osm_id, next_point>> >>

\* segments_to_check of calculate_mobility_model: the current segment and point, and in the
\* last pass of a route also the next segment and point
segments_to_check(i, route_len, current_osm_id, current_point, next_osm_id, next_point) ==
    IF i = route_len - 2
    THEN << <<current_osm_id, current_point>>, <<next_osm_id, next_point>> >>
    ELSE << <<current_osm_id, current_point>> >>

\* for osm_id, point in segments_to_check: self.create_or_update_location(osm_id, point)
RECURSIVE LocationsChecked(_, _)
LocationsChecked(tbl, segments) ==
    IF segments = <<>> THEN tbl
    ELSE LocationsChecked(create_or_update_location(tbl, Head(segments)[1], Head(segments)[2]),
                          Tail(segments))

\* one pass of the loop over the pairs of calculate_mobility_model, for the two answers of
\* nominatim.reverse: the tables after create_or_update_transition and the locations
PairPass(tables, route_, weekday, i, current_osm_id, next_osm_id) ==
    LET current_point == to_degrees(route_[i + 1]).p
        next_point    == to_degrees(route_[i + 2]).p
        directions    == get_directions_for_route(current_point, next_point)
    IN  [tables EXCEPT
           !.transition = create_or_update_transition(@, current_osm_id, next_osm_id, weekday,
                                                      directions.distance, directions.duration),
           !.location = LocationsChecked(@, segments_to_check(i, Len(route_), current_osm_id,
                                                              current_point, next_osm_id,
                                                              next_point))]

\* the routes a row can hold: lists of 1 to n points
MRoutes(n) == SeqsUpTo(MPoints, n) \ {<<>>}


\* model.calculate_mobility_model(df): entry
DBCall ==
    /\ run.pc = "idle"
    /\ run' = [run EXCEPT !.pc = "rows", !.outcome = "none", !.fail = "none"]
    /\ UNCHANGED <<routeVars, call, pt, db, df, batch>>

\* the next row of the data frame: its route and weekday; nr_routes is counted
DBNextRow ==
    /\ run.pc = "rows"
    /\ \E rt \in MRoutes(MaxPoints - run.points), weekday \in Weekdays :
          LET route_ == Route_init(Some(rt), None, "radians").route
          IN  run' = Locals([run EXCEPT !.nr_routes = @ + 1, !.fail = "none",
                                       !.points = @ + Len(rt)],
                            route_, weekday, 0)
    /\ UNCHANGED <<routeVars, call, pt, db, df, batch>>

\* one pass of the loop over the pairs: nominatim.reverse for both points, the router, the
\* transition and the location(s); an exception of nominatim.reverse leaves the method
DBStepPair ==
    /\ run.pc = "pairs"
    /\ LET current_point == to_degrees(run.route[run.i + 1]).p
           next_point    == to_degrees(run.route[run.i + 2]).p
       IN  \/ /\ run' = [run EXCEPT !.pc = "idle", !.outcome = "raised", !.fail = "geocoder",
                                    !.route = <<>>, !.weekday = 0, !.i = 0]
              /\ db' = db
           \/ \E current_osm_id \in Segments, next_osm_id \in Segments :
                 LET directions == get_directions_for_route(current_point, next_point)
                     key        == <<current_osm_id, next_osm_id, run.weekday>>
                 IN  /\ db' = PairPass(db, run.route, run.weekday, run.i,
                                       current_osm_id, next_osm_id)
                     /\ run' = Locals([run EXCEPT !.fail = "none",
                                  !.seen[key] = [n |-> @.n + 1,
                                                 distance |-> @.distance + directions.distance,
                                                 duration |-> @.duration + directions.duration]],
                                       run.route, run.weekday, run.i + 1)
    /\ UNCHANGED <<routeVars, call, pt, df, batch>>

\* the data frame has no further row: calculate_transition_probabilities, then return
DBReturn ==
    /\ run.pc = "rows"
    /\ db' = [db EXCEPT !.transition_probability =
                            calculate_transition_probabilities(db.transition)]
    /\ run' = [run EXCEPT !.pc = "idle", !.outcome = "returned", !.fail = "none"]
    /\ UNCHANGED <<routeVars, call, pt, df, batch>>

NextDB == DBCall \/ DBNextRow \/ DBStepPair \/ DBReturn

SpecDB == InitMobility /\ [][NextDB]_vars

(***************************************************************************)
(* calculate_mobility_model (data frames).  A data frame is the list of    *)
(* its rows; a cell that was never computed (NaN) is <<>>, a computed cell *)
(* <<value>>.  The cell locations holds a Python list of Point objects.    *)
(***************************************************************************)
\* find_transition: the index of the rows with the key
find_transition(osm_id_1, osm_id_2, weekday, tdf) ==
    {i \in 1..Len(tdf) : /\ tdf[i].osm_id_1 = osm_id_1
                         /\ tdf[i].osm_id_2 = osm_id_2
                         /\ tdf[i].weekday = weekday}

\* find_location: the index of the rows of the segment
find_location(osm_id, ldf) == {i \in 1..Len(ldf) : ldf[i].osm_id = osm_id}

\* update_osm_locations: a new row, or list.append on the list of the first row found
update_osm_locations(osm_id, ldf, point) ==
    LET existing_osm_id == find_location(osm_id, ldf)
    IN  IF existing_osm_id = {}
        THEN Append(ldf, [osm_id |-> osm_id, locations |-> <<point>>, center |-> <<>>])
        ELSE [ldf EXCEPT ![Min(existing_osm_id)].locations = Append(@, point)]

\* the duration without the conversion of km/h into m/s
fallback_duration_kmh(distance) == distance \div default_avg_speed_kmh

\* the duration of a distance in metres at default_avg_speed_kmh, in seconds
fallback_duration(distance) == (distance * 3600) \div (default_avg_speed_kmh * 1000)

\* get_shortest_route_details(rt): route_directions is None when client.directions
\* raised, else <<summary>>; gives distance and duration (the returned route is not used)
get_shortest_route_details(rt, route_directions) ==
    LET input_route_has_radians == get_coordinates_unit(rt).unit = "radians"
        r == IF input_route_has_radians
             THEN [i \in 1..Len(rt) |-> to_degrees_(rt[i]).p]
             ELSE rt
        direct == get_distance(r[1], r[2]).d
    IN  IF route_directions # None
        THEN LET route_details == route_directions[1]
                 distance == IF route_details.distance = <<>> THEN direct
                             ELSE route_details.distance[1]
                 duration == IF route_details.duration = <<>> THEN fallback_duration(distance)
                             ELSE route_details.duration[1]
             IN  [distance |-> distance, duration |-> duration]
        ELSE [distance |-> direct, duration |-> fallback_duration(direct)]

RECURSIVE SumCount(_, _)
SumCount(tdf, ids) ==
    IF ids = {} THEN 0
    ELSE LET i == Min(ids) IN tdf[i].count + SumCount(tdf, ids \ {i})

\* the end of the pass for one row: the derived columns of all rows are computed anew
EndOfRow(f) ==
    LET t == f.transition_df
        l == f.location_df
        Group(i) == {j \in 1..Len(t) : /\ t[j].osm_id_1 = t[i].osm_id_1
                                       /\ t[j].weekday = t[i].weekday}
    IN  [transition_df |->
            [i \in 1..Len(t) |->
                [t[i] EXCEPT !.distance_avg = <<Frac(t[i].distance_sum, t[i].count)>>,
                             !.duration_avg = <<Frac(t[i].duration_sum, t[i].count)>>,
                             !.sum_of_count_osm_id_1 = <<SumCount(t, Group(i))>>,
                             !.transition_probability =
                                 <<Frac(t[i].count, SumCount(t, Group(i)))>>]],
         location_df |->
            [i \in 1..Len(l) |->
                [l[i] EXCEPT !.center =
                    get_average_point(Route_init(Some(l[i].locations), None, "radians").route)]]]

\* lines 63-75: a new row for the key, or count and sums of the rows found are raised
upsert_transition(tdf, osm_id_1, osm_id_2, weekday, distance, duration) ==
    LET existing_transition == find_transition(osm_id_1, osm_id_2, weekday, tdf)
    IN  IF existing_transition = {}
        THEN Append(tdf, [osm_id_1 |-> osm_id_1, osm_id_2 |-> osm_id_2, weekday |-> weekday,
                          count |-> 1, distance_sum |-> distance, duration_sum |-> duration,
                          distance_avg |-> <<>>, duration_avg |-> <<>>,
                          sum_of_count_osm_id_1 |-> <<>>, transition_probability |-> <<>>])
        ELSE [i \in 1..Len(tdf) |->
                IF i \in existing_transition
                THEN [tdf[i] EXCEPT !.count = @ + 1, !.distance_sum = @ + distance,
                                    !.duration_sum = @ + duration]
                ELSE tdf[i]]

\* calculate_mobility_model(df, nominatim): entry, with new frames
DFCall ==
    /\ run.pc = "idle"
    /\ run' = [run EXCEPT !.pc = "rows", !.outcome = "none", !.fail = "none", !.points = 0]
    /\ df' = EmptyFrames
    /\ UNCHANGED <<routeVars, call, pt, db, batch>>

\* the next row of the data frame; a route without a pair only has the end of the pass
DFNextRow ==
    /\ run.pc = "rows"
    /\ \E rt \in MRoutes(MaxFramePoints - run.points), weekday \in Weekdays :
          LET route_ == Route_init(Some(rt), None, "radians").route
          IN  /\ run' = Locals([run EXCEPT !.fail = "none", !.points = @ + Len(rt)],
                               route_, weekday, 0)
              /\ df' = IF AfterPair(route_, 0) = "rows" THEN EndOfRow(df) ELSE df
    /\ UNCHANGED <<routeVars, call, pt, db, batch>>

\* one pass of the loop over the pairs, inside try / except Exception; the last pass of a
\* row is followed by the end of the pass for the row
DFStepPair ==
    /\ run.pc = "pairs"
    /\ LET current_point == to_degrees(run.route[run.i + 1]).p
           next_point    == to_degrees(run.route[run.i + 2]).p
           last_pair     == run.i = Len(run.route) - 2
           Finish(f)     == IF last_pair THEN EndOfRow(f) ELSE f
       IN  \/ /\ run' = Locals([run EXCEPT !.fail = "geocoder"],
                               run.route, run.weekday, run.i + 1)
              /\ df' = Finish(df)
           \/ \E current_osm_id \in Segments, next_osm_id \in Segments,
                 route_directions \in
                     {None} \cup {Some(sm) : sm \in Summaries(current_point, next_point)} :
                 LET details == get_shortest_route_details(<<current_point, next_point>>,
                                                           route_directions)
                     tdf == upsert_transition(df.transition_df, current_osm_id, next_osm_id,
                                              run.weekday, details.distance, details.duration)
                     ldf1 == update_osm_locations(current_osm_id, df.location_df,
                                                  current_point)
                     ldf2 == IF last_pair
                             THEN update_osm_locations(next_osm_id, ldf1, next_point)
                             ELSE ldf1
                 IN  /\ df' = Finish([transition_df |-> tdf, location_df |-> ldf2])
                     /\ run' = Locals([run EXCEPT !.fail =
                                          IF route_directions = None THEN "router" ELSE "none"],
                                      run.route, run.weekday, run.i + 1)
    /\ UNCHANGED <<routeVars, call, pt, db, batch>>

\* the data frame has no further row: the two frames are returned
DFReturn ==
    /\ run.pc = "rows"
    /\ run' = [run EXCEPT !.pc = "idle", !.outcome = "returned", !.fail = "none"]
    /\ UNCHANGED <<routeVars, call, pt, db, df, batch>>

NextDF == DFCall \/ DFNextRow \/ DFStepPair \/ DFReturn

SpecDF == InitMobility /\ [][NextDF]_vars

(***************************************************************************)
(* SpecBatch: two MobilityModels on new files and two data frames A and B. *)
(* The first model takes A and then B, the second B and then A, each by    *)
(* one call of calculate_mobility_model per data frame; the tables of a    *)
(* model are read after each call.  nominatim.reverse answers by a fixed   *)
(* function of the place.                                                  *)
(***************************************************************************)
\* most route points of the two data frames together
MaxBatchPoints == 5

\* the data frames with at most n route points: lists of rows (route, weekday), every route
\* with at least one pair (the loop over the pairs does not run for a shorter route)
RECURSIVE Frames(_)
Frames(n) ==
    {<<>>} \cup
    UNION {{<<[route |-> rt, weekday |-> weekday]>> \o rest :
                rest \in Frames(n - Len(rt)), weekday \in Weekdays} :
           rt \in {r \in MRoutes(n) : Len(r) >= 2}}

RECURSIVE FramePoints(_)
FramePoints(frame) ==
    IF frame = <<>> THEN 0 ELSE Len(Head(frame).route) + FramePoints(Tail(frame))

\* [point.y_lat, point.x_lon], the argument of nominatim.reverse
Place(point) == <<point.y, point.x>>

\* the answers of nominatim.reverse: an osm_id for every place
Geocoders == [{Place(to_degrees(p).p) : p \in MPoints} -> Segments]

\* the loop over the pairs of one route, from pair i on
RECURSIVE PairsPassed(_, _, _, _, _)
PairsPassed(tables, route_, weekday, i, reverse) ==
    IF i >= Len(route_) - 1 THEN tables
    ELSE PairsPassed(PairPass(tables, route_, weekday, i,
                              reverse[Place(to_degrees(route_[i + 1]).p)],
                              reverse[Place(to_degrees(route_[i + 2]).p)]),
                     route_, weekday, i + 1, reverse)

\* the loop over the rows of the data frame
RECURSIVE RowsPassed(_, _, _)
RowsPassed(tables, frame, reverse) ==
    IF frame = <<>> THEN tables
    ELSE RowsPassed(PairsPassed(tables, Route_init(Some(Head(frame).route), None, "radians").route,
                                Head(frame).weekday, 0, reverse),
                    Tail(frame), reverse)

\* a calculate_transition_probabilities that fills the table only when it is empty
calculate_transition_probabilities_IfEmpty(tables) ==
    IF tables.transition_probability # {} THEN tables
    ELSE [tables EXCEPT !.transition_probability = calculate_transition_probabilities(tables.transition)]

\* self.calculate_transition_probabilities() on the tables of a model
MobilityModel_calculate_transition_probabilities(tables) ==
    [tables EXCEPT !.transition_probability = calculate_transition_probabilities(tables.transition)]

\* MobilityModel.calculate_mobility_model(df) without an exception: the tables afterwards
MobilityModel_calculate_mobility_model(tables, frame, reverse) ==
    MobilityModel_calculate_transition_probabilities(RowsPassed(tables, frame, reverse))

\* two MobilityModel(...) on new files, the data frames A and B
BMake ==
    /\ batch = <<>>
    /\ \E reverse \in Geocoders, A \in Frames(MaxBatchPoints) :
          \E B \in Frames(MaxBatchPoints - FramePoints(A)) :
              batch' = [reverse |-> reverse, frames |-> <<A, B>>,
                        tables |-> << <<EmptyDB>>, <<EmptyDB>> >>]
    /\ UNCHANGED <<routeVars, db, run, df, call, pt>>

\* model.calculate_mobility_model(df) for the next data frame of one of the models: A, B for
\* the first, B, A for the second
BIngest ==
    /\ batch # <<>>
    /\ \E model \in {1, 2} :
          /\ Len(batch.tables[model]) < 3
          /\ LET nr == Len(batch.tables[model])
                 frame == batch.frames[IF model = 1 THEN nr ELSE 3 - nr]
             IN  batch' = [batch EXCEPT !.tables[model] =
                              Append(@, MobilityModel_calculate_mobility_model(
                                            @[nr], frame, batch.reverse))]
    /\ UNCHANGED <<routeVars, db, run, df, call, pt>>

NextBatch == BMake \/ BIngest

SpecBatch == Init /\ [][NextBatch]_vars

(***************************************************************************)
(* Mobility models: the claims.                                            *)
(***************************************************************************)
KeyOf(row) == <<row.osm_id_1, row.osm_id_2, row.weekday>>

RowsWithKey(tbl, key) == {i \in 1..Len(tbl) : KeyOf(tbl[i]) = key}

\* C4: the table transition has exactly one row for each key (segment_from, segment_to,
\* weekday) with at least one resolved pair and no other row; the counter of the row is the
\* number of those pairs, distance_sum and duration_sum are the sums over those pairs.
C4_TransitionsAggregateResolvedPairs ==
    /\ \A i \in 1..Len(db.transition) :
          KeyOf(db.transition[i]) \in Keys /\ run.seen[KeyOf(db.transition[i])].n > 0
    /\ \A key \in Keys :
          run.seen[key].n > 0 =>
              /\ Cardinality(RowsWithKey(db.transition, key)) = 1
              /\ \A i \in RowsWithKey(db.transition, key) :
                    /\ db.transition[i].counter = run.seen[key].n
                    /\ db.transition[i].distance_sum = run.seen[key].distance
                    /\ db.transition[i].duration_sum = run.seen[key].duration

\* C4 witness: a returned call has left a row that aggregates two pairs of different
\* distance, and a row of another key
C4_Witness ==
    /\ run.pc = "idle" /\ run.outcome = "returned"
    /\ \E i, j \in 1..Len(db.transition) :
          /\ i # j
          /\ db.transition[i].counter = 2
          /\ db.transition[i].distance_sum = 350
          /\ db.transition[i].duration_sum = 30

RECURSIVE GroupCount(_, _, _, _)
GroupCount(tbl, osm_id_1, weekday, n) ==
    IF n = 0 THEN 0
    ELSE (IF tbl[n].osm_id_1 = osm_id_1 /\ tbl[n].weekday = weekday THEN tbl[n].counter ELSE 0)
            + GroupCount(tbl, osm_id_1, weekday, n - 1)

ProbabilitiesOf(i) == {p \in db.transition_probability : p.transition_id = i}

AddFrac(a, b) == <<a[1] * b[2] + b[1] * a[2], a[2] * b[2]>>

RECURSIVE GroupProbability(_, _, _, _)
GroupProbability(tbl, osm_id_1, weekday, n) ==
    IF n = 0 THEN <<0, 1>>
    ELSE IF tbl[n].osm_id_1 = osm_id_1 /\ tbl[n].weekday = weekday
    THEN AddFrac((CHOOSE p \in ProbabilitiesOf(n) : TRUE).transition_probability,
                 GroupProbability(tbl, osm_id_1, weekday, n - 1))
    ELSE GroupProbability(tbl, osm_id_1, weekday, n - 1)

\* C5: when calculate_transition_probabilities has run (the call has returned), every row
\* of transition has exactly one probability, it is counter / (sum of the counters of the
\* rows with the same osm_id_1 and weekday), and the probabilities of each such group add
\* up to 1.
C5_ProbabilitiesNormalisePerOriginAndWeekday ==
    (run.pc = "idle" /\ run.outcome = "returned") =>
        LET t == db.transition
        IN  /\ \A p \in db.transition_probability : p.transition_id \in 1..Len(t)
            /\ \A i \in 1..Len(t) :
                  /\ Cardinality(ProbabilitiesOf(i)) = 1
                  /\ \A p \in ProbabilitiesOf(i) :
                        /\ Len(p.transition_probability) = 2
                        /\ p.transition_probability[1]
                              * GroupCount(t, t[i].osm_id_1, t[i].weekday, Len(t))
                           = t[i].counter * p.transition_probability[2]
            /\ \A i \in 1..Len(t) :
                  LET sum == GroupProbability(t, t[i].osm_id_1, t[i].weekday, Len(t))
                  IN  sum[1] = sum[2]

\* C5 witness: a returned call has left a group of two rows, one of probability 2/3
C5_Witness ==
    /\ run.pc = "idle" /\ run.outcome = "returned"
    /\ \E i, j \in 1..Len(db.transition) :
          /\ i # j
          /\ db.transition[i].osm_id_1 = db.transition[j].osm_id_1
          /\ db.transition[i].weekday = db.transition[j].weekday
          /\ [transition_id |-> i, transition_probability |-> <<2, 3>>]
                \in db.transition_probability

\* the coordinate pairs of a list of Point objects
PairsOf(points) == [j \in 1..Len(points) |-> <<points[j].x, points[j].y>>]

RECURSIVE SumOf(_, _)
SumOf(pairs, c) == IF pairs = <<>> THEN 0 ELSE Head(pairs)[c][1] + SumOf(Tail(pairs), c)

\* the number m (<<k, e>> or <<p, e, q>>) is the mean of coordinate c of the pairs
IsMeanOf(m, pairs, c) ==
    /\ m[1] * Len(pairs) = SumOf(pairs, c) * (IF Len(m) = 3 THEN m[3] ELSE 1)
    /\ \A j \in 1..Len(pairs) : m[1] # 0 => pairs[j][c][2] = m[2]

\* a location record: observed points without a repetition, the centroid their mean
RecordOK(observed, centroid) ==
    /\ \A i, j \in 1..Len(observed) : i # j => observed[i] # observed[j]
    /\ Len(centroid) = 1
    /\ IsMeanOf(centroid[1][1], observed, 1)
    /\ IsMeanOf(centroid[1][2], observed, 2)

\* C6: each segment id has at most one location record, the observed points of a record
\* hold no two equal points, its centroid is their coordinate-wise mean, and the upsert of a
\* point that is among the observed points changes nothing; for the table location in every
\* state, for the frame location_df whenever the pass for a row has ended.
C6_LocationRecords ==
    /\ \A i, j \in 1..Len(db.location) :
          i # j => db.location[i].osm_id # db.location[j].osm_id
    /\ \A i \in 1..Len(db.location) :
          /\ RecordOK(db.location[i].locations, db.location[i].center)
          /\ \A j \in 1..Len(db.location[i].locations) :
                create_or_update_location(db.location, db.location[i].osm_id,
                    Point(points_str_to_list(db.location[i].locations)[j], "latlon", "degrees"))
                  = db.location
    /\ run.pc # "pairs" =>
          /\ \A i, j \in 1..Len(df.location_df) :
                i # j => df.location_df[i].osm_id # df.location_df[j].osm_id
          /\ \A i \in 1..Len(df.location_df) :
                /\ RecordOK(PairsOf(df.location_df[i].locations),
                            PairsOf(df.location_df[i].center))
                /\ \A j \in 1..Len(df.location_df[i].locations) :
                      update_osm_locations(df.location_df[i].osm_id, df.location_df,
                                           df.location_df[i].locations[j])
                        = df.location_df

\* the aggregates of both variants: the transition rows and the location rows without the
\* derived columns
TransitionBase(tdf) ==
    [i \in 1..Len(tdf) |->
        <<tdf[i].osm_id_1, tdf[i].osm_id_2, tdf[i].weekday, tdf[i].count,
          tdf[i].distance_sum, tdf[i].duration_sum>>]

LocationBase(ldf) == [i \in 1..Len(ldf) |-> <<ldf[i].osm_id, ldf[i].locations>>]

Aggregates ==
    <<db.transition, db.location, TransitionBase(df.transition_df), LocationBase(df.location_df)>>

\* C7: a pass of the loop over the pairs in which nominatim.reverse raised changes neither
\* the transitions nor the locations, the loop goes on with the next pair of the route (or
\* with the next row), and the call does not end with the exception.
C7_GeocoderFailureSkipsPair ==
    [][(run.pc = "pairs" /\ run' # run /\ run'.fail = "geocoder") =>
          /\ Aggregates' = Aggregates
          /\ run'.outcome # "raised"
          /\ run'.pc = AfterPair(run.route, run.i + 1)]_vars

\* count and sums of the transition row of a key, zero when there is none
RowOf(tdf, key) ==
    IF RowsWithKey(tdf, key) = {} THEN [count |-> 0, distance_sum |-> 0, duration_sum |-> 0]
    ELSE LET row == tdf[Min(RowsWithKey(tdf, key))]
         IN  [count |-> row.count, distance_sum |-> row.distance_sum,
              duration_sum |-> row.duration_sum]

\* C8: a pass of the loop over the pairs in which both points were geocoded and the router
\* raised raises the count of one transition of the weekday by one, its distance_sum by the
\* get_distance d of the two points and its duration_sum by d / (45 km/h in m/s); the count
\* and sums of every other key stay.
C8_RouterFailureFallsBack ==
    [][(run.pc = "pairs" /\ run' # run /\ run'.fail = "router") =>
          LET d == get_distance(run.route[run.i + 1], run.route[run.i + 2]).d
          IN  \E key \in Keys :
                /\ key[3] = run.weekday
                /\ RowOf(df'.transition_df, key).count = RowOf(df.transition_df, key).count + 1
                /\ RowOf(df'.transition_df, key).distance_sum
                     = RowOf(df.transition_df, key).distance_sum + d
                /\ (RowOf(df'.transition_df, key).duration_sum
                      - RowOf(df.transition_df, key).duration_sum) * 45 * 1000 = d * 3600
                /\ \A other \in Keys \ {key} :
                      RowOf(df'.transition_df, other) = RowOf(df.transition_df, other)]_vars

\* C8 witness: the router has just failed for a pair, and a transition holds two pairs of
\* 25 m each that were aggregated with the fallback (2 s each)
C8_Witness ==
    /\ run.fail = "router"
    /\ \E i \in 1..Len(df.transition_df) :
          /\ df.transition_df[i].count = 2
          /\ df.transition_df[i].distance_sum = 50
          /\ df.transition_df[i].duration_sum = 4

\* the (segment, observed point) pairs of the table location
Held(tbl) ==
    UNION {{<<tbl[i].osm_id, tbl[i].locations[j]>> : j \in 1..Len(tbl[i].locations)} :
           i \in 1..Len(tbl)}

\* the counter of the transition of a key, 0 when there is none
CounterOf(tbl, key) == SumCounter(tbl, RowsWithKey(tbl, key))

\* C28: a pass of the loop over the pairs (p_i, p_i+1) without failure, counted for the
\* transition from segment s1 to segment s2, adds p_i to the locations of s1, in the last pass
\* of the route also p_i+1 to those of s2, and nothing else; a row whose route has fewer than
\* two points changes neither table.
C28_LocationsFollowThePairs ==
    [][/\ (run.pc = "pairs" /\ run' # run /\ run'.fail = "none") =>
            LET current_point == to_degrees(run.route[run.i + 1]).p
                next_point    == to_degrees(run.route[run.i + 2]).p
            IN  \E s1, s2 \in Segments :
                  /\ CounterOf(db'.transition, <<s1, s2, run.weekday>>)
                       = CounterOf(db.transition, <<s1, s2, run.weekday>>) + 1
                  /\ Held(db'.location)
                       = Held(db.location)
                           \cup {<<s1, <<current_point.x, current_point.y>>>>}
                           \cup (IF run.i = Len(run.route) - 2
                                 THEN {<<s2, <<next_point.x, next_point.y>>>>}
                                 ELSE {})
       /\ (run.pc = "rows" /\ run'.pc = "rows") => db' = db]_vars

\* C28 witness: the second pass for a route of three points is about to begin, and of the
\* two points of the first pass only the first has been taken into the locations
C28_Witness ==
    /\ run.pc = "pairs" /\ run.i = 1 /\ Len(run.route) = 3 /\ run.fail = "none"
    /\ run.route[1] # run.route[2]
    /\ Cardinality(Held(db.location)) = 1

\* the number of observed points of the frame location_df
RECURSIVE Observed(_)
Observed(ldf) == IF ldf = <<>> THEN 0 ELSE Len(Head(ldf).locations) + Observed(Tail(ldf))

\* C28 for the data frames: a pass without an exception of nominatim.reverse appends one
\* point to location_df, the last pass of a route two; a row whose route has fewer than two
\* points leaves the base of both frames as it is
C28_FrameLocations ==
    [][/\ (run.pc = "pairs" /\ run' # run /\ run'.fail # "geocoder") =>
            Observed(df'.location_df)
              = Observed(df.location_df) + (IF run.i = Len(run.route) - 2 THEN 2 ELSE 1)
       /\ (run.pc = "rows" /\ run'.pc = "rows") =>
            /\ TransitionBase(df'.transition_df) = TransitionBase(df.transition_df)
            /\ LocationBase(df'.location_df) = LocationBase(df.location_df)]_vars

\* counter, distance_sum and duration_sum of the transition of a key, zeros when there is none
SumsOf(tbl, key) ==
    IF RowsWithKey(tbl, key) = {} THEN <<0, 0, 0>>
    ELSE LET row == tbl[Min(RowsWithKey(tbl, key))]
         IN  <<row.counter, row.distance_sum, row.duration_sum>>

\* the probabilities of the transitions of a key
ProbabilitiesOfKey(tables, key) ==
    {p.transition_probability :
        p \in {q \in tables.transition_probability :
                  q.transition_id \in RowsWithKey(tables.transition, key)}}

\* both models of SpecBatch have taken both data frames
BothTaken == batch # <<>> /\ Len(batch.tables[1]) = 3 /\ Len(batch.tables[2]) = 3

\* C26: the model that took data frame A and then B and the model that took B and then A
\* have, for every key, the same counter, distance_sum, duration_sum and probability, in
\* at most one row each; and counter and sums are those of the model after A alone plus
\* those of the model after B alone.
C26_IngestionOrderAndMerging ==
    BothTaken =>
        LET ab == batch.tables[1][3]
            ba == batch.tables[2][3]
            a  == batch.tables[1][2]
            b  == batch.tables[2][2]
        IN  \A key \in Keys :
              /\ Cardinality(RowsWithKey(ab.transition, key)) <= 1
              /\ Cardinality(RowsWithKey(ba.transition, key)) <= 1
              /\ SumsOf(ab.transition, key) = SumsOf(ba.transition, key)
              /\ ProbabilitiesOfKey(ab, key) = ProbabilitiesOfKey(ba, key)
              /\ \A c \in 1..3 :
                    SumsOf(ab.transition, key)[c]
                      = SumsOf(a.transition, key)[c] + SumsOf(b.transition, key)[c]

\* C26 witness: both models have taken both data frames, and one key has a pair from A and
\* a pair from B of different distance
C26_Witness ==
    /\ BothTaken
    /\ \E key \in Keys :
          /\ SumsOf(batch.tables[1][2].transition, key)[1] = 1
          /\ SumsOf(batch.tables[2][2].transition, key)[1] = 1
          /\ SumsOf(batch.tables[1][2].transition, key)[2]
               # SumsOf(batch.tables[2][2].transition, key)[2]

\* transition_probability has one row for every row of transition and no other, and the
\* value of the row is counter / (sum of the counters of the rows with the same osm_id_1 and
\* weekday)
UpToDate(tables) ==
    LET t == tables.transition
        Of(i) == {p \in tables.transition_probability : p.transition_id = i}
    IN  /\ Cardinality(tables.transition_probability) = Len(t)
        /\ \A i \in 1..Len(t) :
              /\ Cardinality(Of(i)) = 1
              /\ \A p \in Of(i) :
                    /\ Len(p.transition_probability) = 2
                    /\ p.transition_probability[1]
                          * GroupCount(t, t[i].osm_id_1, t[i].weekday, Len(t))
                       = t[i].counter * p.transition_probability[2]

\* C27: after every call of calculate_mobility_model that returned, the first on a new model
\* and the second on a model that holds the data of the first, transition_probability is up
\* to date with transition.
C27_ProbabilitiesFollowEveryCall ==
    batch # <<>> =>
        \A model \in {1, 2} :
            \A nr \in 2..Len(batch.tables[model]) : UpToDate(batch.tables[model][nr])

\* the two models of SpecBatch hold the same transitions in different rows
C26_TablesDifferAsLists ==
    /\ BothTaken
    /\ batch.tables[1][3].transition # batch.tables[2][3].transition
    /\ \E key \in Keys : /\ SumsOf(batch.tables[1][2].transition, key)[1] >= 1
                          /\ SumsOf(batch.tables[2][2].transition, key)[1] >= 1

\* C27 witness: the second call on a model has returned; the first call had left
\* probabilities, and the second has changed the probability of a transition of the first
C27_Witness ==
    /\ batch # <<>> /\ Len(batch.tables[1]) = 3
    /\ batch.tables[1][2].transition_probability # {}
    /\ \E p \in batch.tables[1][2].transition_probability :
          p \notin batch.tables[1][3].transition_probability

(***************************************************************************)
(* SpecCall: one call of a Route or Point operation.  The Route the call   *)
(* is made on is any list of Point / PointT objects: Route is a list, and  *)
(* its constructor takes any list of points as it is.                      *)
(***************************************************************************)
\* the elements of the Routes the operations are called on
RouteItems ==
    PlainValues \cup TimedValues \cup {to_radians(Point(Raw(1, 2), "latlon", "degrees")).p}

CallRoutes == SeqsUpTo(RouteItems, MaxLen)

\* a number read back from a torch tensor: a whole number is kept (int64, or a float32 that
\* holds it exactly), a multiple of pi/180 is rounded to the next float32
float32(n) == IF n[2] = 0 THEN n ELSE <<n[1], n[2], "float32">>

\* torch.tensor(self) ... tensor.numpy().tolist(): plain lists of two numbers
tensor_tolist(r) ==
    [i \in 1..Len(r) |->
        [cls |-> "raw", x |-> float32(r[i].x), y |-> float32(r[i].y),
         grs |-> "none", unit |-> "none", ts |-> NoTs]]

\* torch.nn.ZeroPad2d((0, 0, 0, pad_len)): pad_len rows of zeros behind the rows
ZeroPad2d(rows, pad_len) == rows \o [i \in 1..pad_len |-> Raw(0, 0)]

\* Route.pad(target_len).  The tensor of an empty Route has one dimension, for which the
\* padding of four values is rejected.
Route_pad(r, target_len) ==
    IF Len(r) > 0 /\ r[1].cls # "Point" THEN Failed(r, "pad: first item is no Point")
    ELSE LET pad_len == target_len - Len(r)
         IN  IF pad_len > 0
             THEN IF Len(r) = 0 THEN Failed(r, "pad: tensor of one dimension")
                  ELSE Route_init(Some(ZeroPad2d(tensor_tolist(r), pad_len)), None, "radians")
             ELSE Ok(r, {})

\* the loop of Route.deep_copy: route_copy.append(point.deep_copy()) for each point
RECURSIVE CopyLoop(_, _, _)
CopyLoop(route_copy, r, i) ==
    IF i > Len(r) THEN Ok(route_copy, {})
    ELSE LET res == Route_append(route_copy, deep_copy(r[i]))
         IN  IF res.err THEN Failed(<<>>, res.why) ELSE CopyLoop(res.route, r, i + 1)

\* Route.deep_copy
Route_deep_copy(r) == CopyLoop(<<>>, r, 1)

\* Point(coordinates, geo_reference_system, coordinates_unit) with its checks
Point_init(coordinates, grs, unit) ==
    IF grs \notin {"cartesian", "latlon"} THEN [err |-> TRUE, p |-> None]
    ELSE IF unit \notin {"radians", "degrees"} THEN [err |-> TRUE, p |-> None]
    ELSE [err |-> FALSE, p |-> Some(Point(coordinates, grs, unit))]

\* coordinates written in a unit: whole degrees k, or the radians k * pi/180
CoordinateSteps == {-181, -180, -91, -90, 0, 90, 91, 180, 181}

Coordinate(k, unit) == IF unit = "radians" THEN Norm(<<k, 1>>) ELSE Num(k)

\* Route(route, timestamps, coordinates_unit)
CallInit ==
    /\ call = NoCall
    /\ \E rt \in {None} \cup {Some(l) : l \in SeqsUpTo(Values, MaxInitLen)},
          tss \in {None} \cup {Some(l) : l \in SeqsUpTo(Timestamps, MaxInitLen)},
          unit \in Units :
          call' = [op |-> "init", route |-> rt, timestamps |-> tss, coordinates_unit |-> unit,
                   res |-> Route_init(rt, tss, unit)]
    /\ UNCHANGED <<routeVars, db, run, df, pt, batch>>

\* self.pad(target_len)
CallPad ==
    /\ call = NoCall
    /\ \E self \in CallRoutes, target_len \in 0..(MaxLen + 1) :
          call' = [op |-> "pad", self |-> self, target_len |-> target_len,
                   res |-> Route_pad(self, target_len)]
    /\ UNCHANGED <<routeVars, db, run, df, pt, batch>>

\* self.sort_by_time()
CallSortByTime ==
    /\ call = NoCall
    /\ \E self \in CallRoutes :
          call' = [op |-> "sort_by_time", self |-> self, res |-> sort_by_time(self)]
    /\ UNCHANGED <<routeVars, db, run, df, pt, batch>>

\* self.deep_copy()
CallDeepCopy ==
    /\ call = NoCall
    /\ \E self \in CallRoutes :
          call' = [op |-> "deep_copy", self |-> self, res |-> Route_deep_copy(self)]
    /\ UNCHANGED <<routeVars, db, run, df, pt, batch>>

\* Point([x, y], geo_reference_system, coordinates_unit)
CallPoint ==
    /\ call = NoCall
    /\ \E kx \in CoordinateSteps, ky \in CoordinateSteps,
          grs \in {"latlon", "cartesian", "utm"}, unit \in Units \cup {"gon"} :
          LET coordinates == [Raw(0, 0) EXCEPT !.x = Coordinate(kx, unit), !.y = Coordinate(ky, unit)]
          IN  call' = [op |-> "Point", kx |-> kx, ky |-> ky, geo_reference_system |-> grs,
                       coordinates_unit |-> unit, res |-> Point_init(coordinates, grs, unit)]
    /\ UNCHANGED <<routeVars, db, run, df, pt, batch>>

\* the loop of Route.to_degrees_ / Route.to_radians_: point.to_degrees_() or
\* point.to_radians_() for each point in turn; an exception of a point ends the loop and
\* leaves the points before it converted
RECURSIVE ConvertLoop(_, _, _, _)
ConvertLoop(r, unit, i, warn) ==
    IF i > Len(r) THEN Ok(r, warn)
    ELSE LET c == IF unit = "degrees" THEN to_degrees_(r[i]) ELSE to_radians_(r[i])
         IN  IF c.err THEN [Failed(r, "point is not latlon") EXCEPT !.warn = warn]
             ELSE ConvertLoop([r EXCEPT ![i] = c.p], unit, i + 1,
                              IF c.warn THEN warn \cup {"already " \o unit} ELSE warn)

\* Route.to_degrees_
Route_to_degrees_(r) == ConvertLoop(r, "degrees", 1, {})

\* Route.to_radians_
Route_to_radians_(r) == ConvertLoop(r, "radians", 1, {})

\* Route.to_cartesian_(ignore_warnings) and Route.to_latlon_(ignore_warnings): the call
\* point.to_cartesian_(ignore_warnings) of the first point raises TypeError, because
\* Point.to_cartesian_ and Point.to_latlon_ take no argument
Route_to_cartesian_(r, ignore_warnings) ==
    IF Len(r) = 0 THEN Ok(r, {}) ELSE Failed(r, "TypeError: takes 1 positional argument")

Route_to_latlon_(r, ignore_warnings) ==
    IF Len(r) = 0 THEN Ok(r, {}) ELSE Failed(r, "TypeError: takes 1 positional argument")

\* the in-place methods of Route by name
Route_convert_(method, r) ==
    CASE method = "to_degrees_" -> Route_to_degrees_(r)
      [] method = "to_radians_" -> Route_to_radians_(r)
      [] method = "to_cartesian_" -> Route_to_cartesian_(r, FALSE)
      [] method = "to_latlon_" -> Route_to_latlon_(r, FALSE)

\* Route.to_degrees, to_radians, to_cartesian, to_latlon: the in-place method applied to
\* self.deep_copy(); the result is the copy, or the exception of either step
Route_convert(method, r) ==
    LET route_copy == Route_deep_copy(r)
    IN  IF route_copy.err THEN route_copy
        ELSE LET res == Route_convert_(method \o "_", route_copy.route)
             IN  [res EXCEPT !.warn = res.warn \cup route_copy.warn]

CopyMethods == {"to_degrees", "to_radians", "to_cartesian", "to_latlon"}

InPlaceMethods == {"to_degrees_", "to_radians_", "to_cartesian_", "to_latlon_"}

\* self.to_degrees_(), self.to_radians(), ...: res.route is self after an in-place method,
\* and the returned Route after a copying method
CallConvert ==
    /\ call = NoCall
    /\ \E self \in CallRoutes, method \in CopyMethods \cup InPlaceMethods :
          call' = [op |-> "convert", method |-> method, self |-> self,
                   res |-> IF method \in CopyMethods THEN Route_convert(method, self)
                           ELSE Route_convert_(method, self)]
    /\ UNCHANGED <<routeVars, db, run, df, pt, batch>>

NextCall == CallInit \/ CallPad \/ CallSortByTime \/ CallDeepCopy \/ CallPoint \/ CallConvert

SpecCall == Init /\ [][NextCall]_vars

(***************************************************************************)
(* Route and Point operations: the claims.                                 *)
(***************************************************************************)
CountIn(seq, v) == Cardinality({i \in 1..Len(seq) : seq[i] = v})

SameMultiset(a, b) ==
    /\ Len(a) = Len(b)
    /\ \A i \in 1..Len(a) : CountIn(a, a[i]) = CountIn(b, a[i])

\* the (coordinates, timestamp) pairs of the elements of a Route
TimedPairs(r) == [i \in 1..Len(r) |-> <<r[i].x, r[i].y, r[i].ts>>]

\* the pairs (points[i], timestamps[i]) of the arguments of Route(points, timestamps)
GivenPairs(points, timestamps) ==
    [i \in 1..Len(points) |-> <<points[i].x, points[i].y, timestamps[i]>>]

\* C14: Route(points, timestamps) raises when the two lengths differ; otherwise the result
\* has len(points) elements, its (coordinates, timestamp) pairs are, as a multiset, the pairs
\* (points[i], timestamps[i]) (whatever the type of the given points), and it is ordered by
\* timestamp.
C14_InitZipsPointsWithTimestamps ==
    (call.op = "init" /\ call.route # None /\ call.timestamps # None) =>
        LET points == call.route[1]
            timestamps == call.timestamps[1]
        IN  IF Len(points) # Len(timestamps) THEN call.res.err
            ELSE /\ ~call.res.err
                 /\ Len(call.res.route) = Len(points)
                 /\ has_timestamps(call.res.route) \/ Len(points) = 0
                 /\ SameMultiset(TimedPairs(call.res.route), GivenPairs(points, timestamps))
                 /\ Sorted(call.res.route)

\* C14 for given points that are not TimedPoints
C14_UntimedPointsOnly ==
    (call.op = "init" /\ call.route # None /\ \A i \in 1..Len(call.route[1]) : ~isPointT(call.route[1][i]))
        => C14_InitZipsPointsWithTimestamps

\* type(item) is Point for every item
OnlyPlainPoints(r) == \A i \in 1..Len(r) : r[i].cls = "Point"

Max(a, b) == IF a >= b THEN a ELSE b

\* C15: after pad(target_len) on a Route of plain Points the length is
\* max(target_len, original length), the original elements are the first elements, in their
\* order, and every added element is a plain Point with the coordinates (0, 0).
C15_PadKeepsElementsAndAddsZeros ==
    (call.op = "pad" /\ OnlyPlainPoints(call.self)) =>
        LET n == Len(call.self)
            padded == call.res.route
        IN  /\ ~call.res.err
            /\ Len(padded) = Max(call.target_len, n)
            /\ SubSeq(padded, 1, n) = call.self
            /\ \A i \in (n + 1)..Len(padded) :
                  padded[i].cls = "Point" /\ padded[i].x = Num(0) /\ padded[i].y = Num(0)

\* C15 for the non-empty Routes of latlon points in radians with whole-number coordinates
C15_WholeRadiansLatlonOnly ==
    (/\ call.op = "pad" /\ Len(call.self) > 0
     /\ \A i \in 1..Len(call.self) :
           /\ call.self[i].grs = "latlon" /\ call.self[i].unit = "radians"
           /\ call.self[i].x[2] = 0 /\ call.self[i].y[2] = 0)
        => C15_PadKeepsElementsAndAddsZeros

\* C16: pad raises on every Route with an element that is not a plain Point, wherever the
\* element is, and leaves the Route as it is.
C16_PadFailsOnSubtypeElement ==
    (call.op = "pad" /\ ~OnlyPlainPoints(call.self)) =>
        (call.res.err /\ call.res.route = call.self)

\* C16 for the Routes whose first element is not a plain Point
C16_FirstElementOnly ==
    (call.op = "pad" /\ Len(call.self) > 0 /\ call.self[1].cls # "Point") =>
        (call.res.err /\ call.res.route = call.self)

\* sorted is r rearranged by a one-to-one choice of positions that keeps the order of the
\* elements of equal timestamp
StablePermutation(r, sorted) ==
    /\ Len(sorted) = Len(r)
    /\ \E pi \in [1..Len(r) -> 1..Len(r)] :
          /\ \A i, j \in 1..Len(r) : i # j => pi[i] # pi[j]
          /\ \A k \in 1..Len(r) : sorted[k] = r[pi[k]]
          /\ \A i, j \in 1..Len(r) : (i < j /\ sorted[i].ts = sorted[j].ts) => pi[i] < pi[j]

\* C17: sort_by_time on a Route of TimedPoints gives its elements in ascending timestamp
\* order, elements of equal timestamp in their former order; on a non-empty Route with a
\* plain Point it raises.
C17_SortByTimeIsStable ==
    call.op = "sort_by_time" =>
        IF \A i \in 1..Len(call.self) : isPointT(call.self[i])
        THEN /\ ~call.res.err
             /\ Sorted(call.res.route)
             /\ StablePermutation(call.self, call.res.route)
        ELSE call.res.err

\* C17 witness: the sort has moved elements, and two different elements have one timestamp
C17_Witness ==
    /\ call.op = "sort_by_time" /\ ~call.res.err
    /\ call.res.route # call.self
    /\ \E i, j \in 1..Len(call.res.route) :
          /\ i < j
          /\ call.res.route[i].ts = call.res.route[j].ts
          /\ call.res.route[i] # call.res.route[j]

\* C18: in every state of a Route, delete_point_at_(idx) with 0 <= idx < length removes the
\* element at idx and keeps the others in order; with any other idx (idx >= length, a
\* negative idx, any idx on an empty Route) it raises and leaves the Route as it is.
C18_DeleteRemovesOrFails ==
    constructed = "yes" =>
        \A idx \in -(Len(route) + 1)..(Len(route) + 1) :
            LET res == delete_point_at_(route, idx)
            IN  IF 0 <= idx /\ idx < Len(route)
                THEN ~res.err /\ res.route = RemoveAt(route, idx + 1)
                ELSE res.err /\ res.route = route

\* C18 for the indices that are not negative
C18_NonNegativeIndexOnly ==
    constructed = "yes" =>
        \A idx \in 0..(Len(route) + 1) :
            LET res == delete_point_at_(route, idx)
            IN  IF idx < Len(route)
                THEN ~res.err /\ res.route = RemoveAt(route, idx + 1)
                ELSE res.err /\ res.route = route

\* the fields of a point that a copy has to keep
SamePoint(p, q) ==
    /\ p.cls = q.cls /\ p.x = q.x /\ p.y = q.y
    /\ p.grs = q.grs /\ p.unit = q.unit /\ p.ts = q.ts

\* the Routes that hold only plain Points or only TimedPoints, in one unit, timed ones in order
WellFormed(r) ==
    /\ OnlyPlainPoints(r) \/ \A i \in 1..Len(r) : isPointT(r[i])
    /\ \A i, j \in 1..Len(r) : r[i].unit = r[j].unit
    /\ Sorted(r)

\* C19: deep_copy of a Route (of one unit, plain or timed) returns a Route of the same length
\* whose i-th element has the coordinates, reference system, unit and timestamp of the i-th
\* element of the original, in degrees as well as in radians.
C19_DeepCopyKeepsElements ==
    (call.op = "deep_copy" /\ WellFormed(call.self)) =>
        /\ ~call.res.err
        /\ Len(call.res.route) = Len(call.self)
        /\ \A i \in 1..Len(call.self) : SamePoint(call.res.route[i], call.self[i])

\* C19 for the Routes in radians
C19_RadiansOnly ==
    (call.op = "deep_copy" /\ AllOfUnit(call.self, "radians")) => C19_DeepCopyKeepsElements

\* |k| <= limit, for a coordinate of k steps
Within(k, limit) == -limit <= k /\ k <= limit

\* C20: Point(coordinates, 'latlon', unit) raises when the longitude is outside [-180, 180]
\* degrees ([-pi, pi] radians) or the latitude outside [-90, 90] degrees ([-pi/2, pi/2]
\* radians), and returns a Point for values inside, the bounds included.
C20_LatlonRangeIsValidated ==
    (call.op = "Point" /\ call.geo_reference_system = "latlon" /\ call.coordinates_unit \in Units) =>
        (call.res.err <=> ~(Within(call.kx, 180) /\ Within(call.ky, 90)))

\* C20 for the coordinates inside the range
C20_InsideRangeOnly ==
    (call.op = "Point" /\ Within(call.kx, 180) /\ Within(call.ky, 90)) => C20_LatlonRangeIsValidated

HasCartesian(r) == \E i \in 1..Len(r) : r[i].grs = "cartesian"

\* C29: Route.to_degrees_ and Route.to_radians_ on a Route with a cartesian point raise, and
\* the Route is then as it was before the call: no element has been converted.
C29_RouteConversionFailsWithoutChange ==
    (call.op = "convert" /\ call.method \in {"to_degrees_", "to_radians_"} /\ HasCartesian(call.self))
        => (call.res.err /\ call.res.route = call.self)

\* C29 for the Routes whose first element is the cartesian point
C29_CartesianFirstOnly ==
    (call.op = "convert" /\ Len(call.self) > 0 /\ call.self[1].grs = "cartesian")
        => C29_RouteConversionFailsWithoutChange

\* C30: after a pad that returned, every element that was in the Route before has the unit
\* and the reference system it had, whether or not elements were added.
C30_PadKeepsUnitAndReferenceSystem ==
    (call.op = "pad" /\ ~call.res.err) =>
        /\ Len(call.res.route) >= Len(call.self)
        /\ \A i \in 1..Len(call.self) :
              /\ call.res.route[i].unit = call.self[i].unit
              /\ call.res.route[i].grs = call.self[i].grs

\* C30 for the calls that add no element
C30_NothingAddedOnly ==
    (call.op = "pad" /\ call.target_len <= Len(call.self)) => C30_PadKeepsUnitAndReferenceSystem

(***************************************************************************)
(* SpecPoint: Point objects.  An object has the two items of its list      *)
(* (point[0], point[1]), the attributes x_lon and y_lat, its reference     *)
(* system and unit, and an identity: its position in the heap.  A number   *)
(* is <<k, e, m>>: k * (pi/180)^e, carried m times from the sphere onto    *)
(* the plane (m < 0: from the plane onto the sphere).                      *)
(***************************************************************************)
\* most calls that change one object (setters and in-place methods)
MaxChanges == 2

Coord(k) == <<k, 0, 0>>

\* math.degrees, math.radians
Degrees(n) == <<n[1], n[2] - 1, n[3]>>

Radians(n) == <<n[1], n[2] + 1, n[3]>>

\* radius * x_lon and radius * log(tan(pi/4 + y_lat/2)) of Point.to_cartesian_
Projected(n) == <<n[1], n[2], n[3] + 1>>

\* x_lon / r and pi/2 - 2 * arctan(exp(-y_lat / r)) of Point.to_latlon_
Unprojected(n) == <<n[1], n[2], n[3] - 1>>

\* the coordinate of the destination of Point.add_vector_ for a distance that is not 0
Moved(n) == <<n[1] + 10, n[2], n[3]>>

\* Point(coordinates, geo_reference_system, coordinates_unit) as an object
NewPoint(coordinates, grs, unit) ==
    [cls |-> "Point", list |-> coordinates, x_lon |-> coordinates[1], y_lat |-> coordinates[2],
     grs |-> grs, unit |-> unit, ts |-> NoTs]

\* PointT(coordinates, timestamp, geo_reference_system, coordinates_unit) as an object
NewPointT(coordinates, ts, grs, unit) ==
    [NewPoint(coordinates, grs, unit) EXCEPT !.cls = "PointT", !.ts = ts]

\* the outcome of a method on an object: the object afterwards, warnings, whether it raised
Raised(o) == [err |-> TRUE, o |-> o, warn |-> {}]

Returned(o, warn) == [err |-> FALSE, o |-> o, warn |-> warn]

\* Point.__setitem__(key, value): list.__setitem__ takes -2 .. 1, the attributes follow
\* the keys 0 and 1
Point_setitem(o, key, value) ==
    LET pos == IF key < 0 THEN key + 3 ELSE key + 1
    IN  IF pos \notin {1, 2} THEN Raised(o)
        ELSE Returned([o EXCEPT !.list[pos] = value,
                                !.x_lon = IF key = 0 THEN value ELSE @,
                                !.y_lat = IF key = 1 THEN value ELSE @], {})

\* Point.set_x_lon, Point.set_y_lat
Point_set_x_lon(o, value) == Point_setitem(o, 0, value)

Point_set_y_lat(o, value) == Point_setitem(o, 1, value)

\* set_x_lon(x) followed by set_y_lat(y)
SetBoth(o, x, y) == Point_set_y_lat(Point_set_x_lon(o, x).o, y).o

\* Point.to_degrees_(ignore_warning)
Point_to_degrees_(o, ignore_warning) ==
    IF o.grs # "latlon" THEN Raised(o)
    ELSE IF o.unit = "degrees"
    THEN Returned(o, IF ignore_warning THEN {} ELSE {"already degrees"})
    ELSE Returned([SetBoth(o, Degrees(o.x_lon), Degrees(o.y_lat)) EXCEPT !.unit = "degrees"], {})

\* Point.to_radians_(ignore_warning)
Point_to_radians_(o, ignore_warning) ==
    IF o.grs # "latlon" THEN Raised(o)
    ELSE IF o.unit = "radians"
    THEN Returned(o, IF ignore_warning THEN {} ELSE {"already radians"})
    ELSE Returned([SetBoth(o, Radians(o.x_lon), Radians(o.y_lat)) EXCEPT !.unit = "radians"], {})

\* a to_cartesian_ that raises for a cartesian point
Point_to_cartesian_Strict(o) ==
    IF o.grs = "latlon"
    THEN Returned([SetBoth(o, Projected(o.x_lon), Projected(o.y_lat)) EXCEPT !.grs = "cartesian"], {})
    ELSE Raised(o)

\* Point.to_cartesian_
Point_to_cartesian_(o) ==
    IF o.grs = "latlon"
    THEN Returned([SetBoth(o, Projected(o.x_lon), Projected(o.y_lat)) EXCEPT !.grs = "cartesian"], {})
    ELSE Returned(o, {"already cartesian"})

\* Point.to_latlon_
Point_to_latlon_(o) ==
    IF o.grs = "cartesian"
    THEN Returned([SetBoth(o, Unprojected(o.x_lon), Unprojected(o.y_lat)) EXCEPT !.grs = "latlon"], {})
    ELSE Returned(o, {"already latlon"})

\* Point.add_vector_(distance, angle), distance not 0
Point_add_vector_(o) ==
    IF o.grs = "latlon" THEN Returned(SetBoth(o, Moved(o.x_lon), Moved(o.y_lat)), {})
    ELSE Raised(o)

\* Point.deep_copy / PointT.deep_copy: a new object made from the list items of self
Point_deep_copy(o) ==
    IF o.cls = "PointT" THEN NewPointT(o.list, o.ts, o.grs, o.unit)
    ELSE NewPoint(o.list, o.grs, o.unit)

PointInPlaceMethods == {"to_degrees_", "to_radians_", "to_cartesian_", "to_latlon_", "add_vector_"}

PointCopyMethods == {"to_degrees", "to_radians", "to_cartesian", "to_latlon", "add_vector"}

\* the in-place methods of Point by name
Point_method_(method, o, ignore_warning) ==
    CASE method = "to_degrees_" -> Point_to_degrees_(o, ignore_warning)
      [] method = "to_radians_" -> Point_to_radians_(o, ignore_warning)
      [] method = "to_cartesian_" -> Point_to_cartesian_(o)
      [] method = "to_latlon_" -> Point_to_latlon_(o)
      [] method = "add_vector_" -> Point_add_vector_(o)

\* the element of a set of one element; The({e(x) : x \in {v}}) is e of the value v
The(S) == CHOOSE x \in S : TRUE

\* the outcome of a call on the heap: the heap afterwards, the identity of the returned
\* object (0: nothing returned), warnings, whether it raised
HeapRaised(heap, warn) == [err |-> TRUE, heap |-> heap, ret |-> 0, warn |-> warn, value |-> None]

\* an in-place method on the object self of the heap
InPlace(heap, self, method, ignore_warning) ==
    The({[err |-> res.err, heap |-> [heap EXCEPT ![self] = res.o], ret |-> 0, warn |-> res.warn,
          value |-> None] : res \in {Point_method_(method, heap[self], ignore_warning)}})

\* Point.to_degrees, to_radians, to_cartesian, to_latlon, add_vector: point_copy =
\* self.deep_copy(), the in-place method on point_copy, return point_copy
Copying(heap, self, method, ignore_warning) ==
    The({IF res.err THEN res ELSE [res EXCEPT !.ret = Len(res.heap)] :
         res \in {InPlace(Append(heap, Point_deep_copy(heap[self])), Len(heap) + 1,
                          method \o "_", ignore_warning)}})

\* the bearing of get_bearing from the two copies in radians: atan2 is applied to their
\* list items
BearingOf(b, point_a, point_b, warn) ==
    [err |-> FALSE, heap |-> b.heap, ret |-> 0, warn |-> warn \cup b.warn,
     value |-> Some(<<b.heap[point_a].list, b.heap[point_b].list>>)]

\* get_bearing(point_a, point_b): raises unless both are latlon; point_a and point_b become
\* copies in radians
get_bearing(heap, point_a, point_b) ==
    IF heap[point_a].grs # "latlon" \/ heap[point_b].grs # "latlon"
    THEN HeapRaised(heap, {})
    ELSE The({The({BearingOf(b, a.ret, b.ret, a.warn) :
                   b \in {Copying(a.heap, point_b, "to_radians", TRUE)}}) :
              a \in {Copying(heap, point_a, "to_radians", TRUE)}})

\* the distance of get_distance from two points of one reference system: haversine or
\* the euclidean distance is applied to their attributes
DistanceOf(b, point_a, point_b, warn) ==
    [err |-> FALSE, heap |-> b.heap, ret |-> 0, warn |-> warn \cup b.warn,
     value |-> Some(<<b.heap[point_a].x_lon, b.heap[point_a].y_lat,
                      b.heap[point_b].x_lon, b.heap[point_b].y_lat>>)]

\* get_distance(point_a, point_b) on objects: raises when the reference systems differ; latlon
\* points become copies in degrees
get_distance_on(heap, point_a, point_b) ==
    IF heap[point_a].grs # heap[point_b].grs THEN HeapRaised(heap, {})
    ELSE IF heap[point_a].grs = "latlon"
    THEN The({The({DistanceOf(b, a.ret, b.ret, a.warn) :
                   b \in {Copying(a.heap, point_b, "to_degrees", TRUE)}}) :
              a \in {Copying(heap, point_a, "to_degrees", TRUE)}})
    ELSE DistanceOf([heap |-> heap, warn |-> {}], point_a, point_b, {})

\* interpolated_point.add_vector_(ratio * distance, bearing) and the conversion back to
\* degrees when the start point was in degrees
InterpolatedFrom(heap, interpolated_point, coordinates_unit, warn) ==
    The({The({[err |-> FALSE, heap |-> back.heap, ret |-> interpolated_point, value |-> None,
               warn |-> warn \cup moved.warn \cup back.warn] :
              back \in {IF coordinates_unit = "degrees"
                        THEN InPlace(moved.heap, interpolated_point, "to_degrees_", FALSE)
                        ELSE moved}}) :
         moved \in {InPlace(heap, interpolated_point, "add_vector_", FALSE)}})

\* get_interpolated_point of point.py from the copy of the start point in radians: the new
\* Point(start_point, geo_reference_system=geo_ref), then get_distance and get_bearing
InterpolatedOver(start, end_point, coordinates_unit) ==
    The({IF distance.err THEN HeapRaised(distance.heap, {})
         ELSE The({IF bearing.err THEN HeapRaised(bearing.heap, {})
                   ELSE InterpolatedFrom(bearing.heap, Len(start.heap) + 1, coordinates_unit,
                                         start.warn \cup distance.warn \cup bearing.warn) :
                   bearing \in {get_bearing(distance.heap, start.ret, end_point)}}) :
         distance \in {get_distance_on(
                           Append(start.heap,
                                  NewPoint(start.heap[start.ret].list, "latlon", "radians")),
                           start.ret, end_point)}})

\* get_interpolated_point of point.py (imported by point_t.py as get_interpolated), for a
\* ratio and a distance that are not 0
get_interpolated(heap, start_point, end_point) ==
    IF heap[start_point].grs # "latlon" THEN HeapRaised(heap, {})
    ELSE The({InterpolatedOver(start, end_point, heap[start_point].unit) :
              start \in {Copying(heap, start_point, "to_radians", TRUE)}})

\* get_interpolated_point of point_t.py: the PointT made from the interpolated Point and
\* start_point.timestamp (a start point without timestamp raises AttributeError)
get_interpolated_point(heap, start_point, end_point) ==
    The({IF point.err THEN point
         ELSE IF heap[start_point].cls # "PointT" THEN HeapRaised(point.heap, point.warn)
         ELSE [point EXCEPT
                 !.heap = Append(point.heap,
                                 NewPointT(point.heap[point.ret].list, heap[start_point].ts,
                                           point.heap[point.ret].grs, "radians")),
                 !.ret = Len(point.heap) + 1] :
         point \in {get_interpolated(heap, start_point, end_point)}})

\* the objects a behaviour starts with: self, the object the methods are called on, and
\* other, the second argument of the functions of two points
SelfPoints ==
    {NewPoint(<<Coord(1), Coord(2)>>, grs, unit) : grs \in {"latlon", "cartesian"}, unit \in Units}
      \cup {NewPointT(<<Coord(1), Coord(2)>>, 1, "latlon", unit) : unit \in Units}

OtherPoints ==
    {NewPointT(<<Coord(2), Coord(1)>>, 2, "latlon", "radians"),
     NewPointT(<<Coord(2), Coord(1)>>, 2, "latlon", "degrees"),
     NewPoint(<<Coord(2), Coord(1)>>, "cartesian", "radians")}

\* the values written by the setters
SetValues == {Coord(3)}

\* what pt.last keeps of a call: the heap before it, the returned object and whether that
\* object did not exist before
PointDone(op, key, heap, res) ==
    [op |-> op, key |-> key, err |-> res.err, warn |-> res.warn, before |-> heap,
     ret |-> IF res.ret = 0 THEN None ELSE Some(res.heap[res.ret]),
     fresh |-> res.ret > Len(heap),
     value |-> res.value]

\* the state after a call: self and other stay, the objects made by the call are dropped
AfterCall(op, key, res) ==
    [heap |-> SubSeq(res.heap, 1, Len(pt.heap)),
     changes |-> IF res.heap[1] # pt.heap[1] THEN pt.changes + 1 ELSE pt.changes,
     last |-> PointDone(op, key, pt.heap, res)]

\* self = Point(...) or PointT(...), other = Point(...) or PointT(...)
PMake ==
    /\ pt = <<>>
    /\ \E self \in SelfPoints, other \in OtherPoints :
          pt' = [heap |-> <<self, other>>, changes |-> 0,
                 last |-> [op |-> "Point", key |-> 0, err |-> FALSE, warn |-> {}, before |-> <<>>,
                           ret |-> None, fresh |-> FALSE, value |-> None]]
    /\ UNCHANGED <<routeVars, db, run, df, call, batch>>

\* self[key] = value
PSetItem ==
    /\ pt # <<>> /\ pt.changes < MaxChanges
    /\ \E key \in -3..2, value \in SetValues :
          LET res == Point_setitem(pt.heap[1], key, value)
          IN  pt' = AfterCall("setitem", key,
                              [err |-> res.err, warn |-> res.warn, ret |-> 0, value |-> None,
                               heap |-> [pt.heap EXCEPT ![1] = res.o]])
    /\ UNCHANGED <<routeVars, db, run, df, call, batch>>

\* self.set_x_lon(value), self.set_y_lat(value)
PSetCoordinate ==
    /\ pt # <<>> /\ pt.changes < MaxChanges
    /\ \E key \in {0, 1}, value \in SetValues :
          LET res == IF key = 0 THEN Point_set_x_lon(pt.heap[1], value)
                     ELSE Point_set_y_lat(pt.heap[1], value)
          IN  pt' = AfterCall(IF key = 0 THEN "set_x_lon" ELSE "set_y_lat", key,
                              [err |-> res.err, warn |-> res.warn, ret |-> 0, value |-> None,
                               heap |-> [pt.heap EXCEPT ![1] = res.o]])
    /\ UNCHANGED <<routeVars, db, run, df, call, batch>>

\* self.to_degrees_(), self.to_radians_(), self.to_cartesian_(), self.to_latlon_(),
\* self.add_vector_(distance, angle)
PInPlace ==
    /\ pt # <<>> /\ pt.changes < MaxChanges
    /\ \E method \in PointInPlaceMethods :
          \E res \in {InPlace(pt.heap, 1, method, FALSE)} : pt' = AfterCall(method, 0, res)
    /\ UNCHANGED <<routeVars, db, run, df, call, batch>>

\* self.to_degrees(), self.to_radians(), self.to_cartesian(), self.to_latlon(),
\* self.add_vector(distance, angle)
PCopying ==
    /\ pt # <<>>
    /\ \E method \in PointCopyMethods :
          \E res \in {Copying(pt.heap, 1, method, FALSE)} : pt' = AfterCall(method, 0, res)
    /\ UNCHANGED <<routeVars, db, run, df, call, batch>>

\* get_bearing(self, other), get_bearing(other, self)
PGetBearing ==
    /\ pt # <<>>
    /\ \E a \in {1, 2} :
          \E res \in {get_bearing(pt.heap, a, 3 - a)} : pt' = AfterCall("get_bearing", a, res)
    /\ UNCHANGED <<routeVars, db, run, df, call, batch>>

\* get_interpolated_point(self, other, ratio) of point_t.py, and with the two exchanged
PInterpolate ==
    /\ pt # <<>>
    /\ \E a \in {1, 2} :
          \E res \in {get_interpolated_point(pt.heap, a, 3 - a)} :
              pt' = AfterCall("get_interpolated_point", a, res)
    /\ UNCHANGED <<routeVars, db, run, df, call, batch>>

NextPoint ==
    PMake \/ PSetItem \/ PSetCoordinate \/ PInPlace \/ PCopying \/ PGetBearing \/ PInterpolate

SpecPoint == Init /\ [][NextPoint]_vars

(***************************************************************************)
(* Point objects: the claims.                                              *)
(***************************************************************************)
\* point[0] is x_lon and point[1] is y_lat
InSync(o) == o.list[1] = o.x_lon /\ o.list[2] = o.y_lat

\* a call has been made on the objects of pt
Called == pt # <<>> /\ pt.last.before # <<>>

\* C21: after any sequence of set_x_lon, set_y_lat, index assignments that do not raise and
\* conversions of unit and reference system, the items of the Point are its attributes:
\* point[0] = x_lon and point[1] = y_lat.
C21_ItemsAreAttributes == pt # <<>> => InSync(pt.heap[1])

\* C21 for every call but an assignment at a negative index: items and attributes that
\* agreed before the call agree after it
C21_NonNegativeKeysOnly ==
    (Called /\ InSync(pt.last.before[1]) /\ ~(pt.last.op = "setitem" /\ pt.last.key < 0))
        => InSync(pt.heap[1])

\* the elements of r are in the state the Route method converts to
RouteAlready(method, r) ==
    CASE method \in {"to_degrees", "to_degrees_"} -> AllOfUnit(r, "degrees")
      [] method \in {"to_radians", "to_radians_"} -> AllOfUnit(r, "radians")
      [] method \in {"to_cartesian", "to_cartesian_"} -> \A i \in 1..Len(r) : r[i].grs = "cartesian"
      [] method \in {"to_latlon", "to_latlon_"} -> AllLatlon(r)

\* the Routes a conversion is defined for: a unit conversion needs latlon points, and a
\* copying conversion a Route that deep_copy copies
Convertible(method, r) ==
    /\ method \in {"to_degrees", "to_degrees_", "to_radians", "to_radians_"} => AllLatlon(r)
    /\ method \in CopyMethods => ~Route_deep_copy(r).err

\* C22 for Routes: to_cartesian, to_latlon, to_degrees and to_radians return a Route (the
\* receiver is the argument of a copy and is not written to), and the variant with the
\* trailing underscore returns and has changed the receiver when there was something to
\* convert.
C22_RouteTransforms ==
    (call.op = "convert" /\ Convertible(call.method, call.self)) =>
        /\ ~call.res.err
        /\ (call.method \in InPlaceMethods /\ ~RouteAlready(call.method, call.self))
              => call.res.route # call.self

\* C22 for the unit conversions of a Route
C22_RouteUnitTransformsOnly ==
    (call.op = "convert" /\ call.method \in {"to_degrees", "to_degrees_", "to_radians", "to_radians_"})
        => C22_RouteTransforms

\* C22 for Points: a copying transform that returns has returned an object that did not
\* exist before and has left the receiver as it was; the in-place variant that returns
\* without warning has changed the receiver.
C22_PointTransforms ==
    Called =>
        /\ (pt.last.op \in PointCopyMethods /\ ~pt.last.err)
              => (pt.last.fresh /\ pt.last.ret # None /\ pt.heap = pt.last.before)
        /\ (pt.last.op \in PointCopyMethods /\ pt.last.err) => pt.heap = pt.last.before
        /\ (pt.last.op \in PointInPlaceMethods /\ ~pt.last.err /\ pt.last.warn = {})
              => pt.heap[1] # pt.last.before[1]

\* the object is in the state the in-place method converts to
Already(method, o) ==
    CASE method = "to_degrees_" -> o.unit = "degrees"
      [] method = "to_radians_" -> o.unit = "radians"
      [] method = "to_cartesian_" -> o.grs = "cartesian"
      [] method = "to_latlon_" -> o.grs = "latlon"
      [] OTHER -> FALSE

UnitMethods == {"to_degrees_", "to_radians_"}

C24_BearingWarnsOnDifferentUnits ==
    (Called /\ pt.last.op = "get_bearing") =>
        LET a == pt.last.before[pt.last.key]
            b == pt.last.before[3 - pt.last.key]
        IN  /\ pt.heap = pt.last.before
            /\ IF a.grs # "latlon" \/ b.grs # "latlon" THEN pt.last.err
               ELSE /\ ~pt.last.err
                    /\ pt.last.value # None
                    /\ a.unit # b.unit => pt.last.warn # {}

\* C24 without the warning: the error, the returned bearing and the unchanged points
C24_WithoutTheWarning ==
    (Called /\ pt.last.op = "get_bearing") =>
        LET a == pt.last.before[pt.last.key]
            b == pt.last.before[3 - pt.last.key]
        IN  /\ pt.heap = pt.last.before
            /\ pt.last.err <=> (a.grs # "latlon" \/ b.grs # "latlon")
            /\ ~pt.last.err => pt.last.value # None

\* C25: get_interpolated_point of point_t.py raises for a cartesian start point; for latlon
\* PointTs it returns a new PointT with the timestamp, the unit and the reference system of
\* the start point; the two points are afterwards as they were.
C25_InterpolatedPointIsLikeStart ==
    (Called /\ pt.last.op = "get_interpolated_point") =>
        LET start == pt.last.before[pt.last.key]
            end == pt.last.before[3 - pt.last.key]
        IN  /\ pt.heap = pt.last.before
            /\ start.grs = "cartesian" => pt.last.err
            /\ (start.cls = "PointT" /\ start.grs = "latlon" /\ end.grs = "latlon") =>
                  /\ ~pt.last.err /\ pt.last.fresh /\ pt.last.ret # None
                  /\ pt.last.ret[1].cls = "PointT"
                  /\ pt.last.ret[1].ts = start.ts
                  /\ pt.last.ret[1].grs = start.grs
                  /\ pt.last.ret[1].unit = start.unit

\* C25 for start points in radians
C25_RadiansOnly ==
    (Called /\ pt.last.op = "get_interpolated_point"
            /\ (pt.last.before[pt.last.key].unit = "radians"
                  \/ pt.last.before[pt.last.key].grs = "cartesian"))
        => C25_InterpolatedPointIsLikeStart

====
